---- MODULE Spec2Model ----
(***************************************************************************)
(* Verification model of meta-core: flock-based leader election, the       *)
(* supervised Redis subprocess, the atomically published leader-info file  *)
(* and the storage client that follows the leader.                         *)
(*                                                                         *)
(* Every sidecar process runs main(): election.Start(), then serves until  *)
(* a shutdown signal, then election.Stop() and storageClient.Close().      *)
(* The processes share one volume: the lock file (kernel flock), the       *)
(* leader-info file and its ".tmp" sibling.                                *)
(***************************************************************************)
EXTENDS Integers, FiniteSets, Sequences, TLC

\* ---------------------------------------------------------------- bounds
NumProcs == 2
MaxTime == 4
TicksPerSecond == 2     \* clock ticks in one second, the precision of RFC 3339 timestamps
StaleThreshold == 2     \* Config.StaleThresholdMS, in clock ticks
MaxDepth == 3           \* directories in META_CORE_PATH
MaxSpawns == 3          \* store subprocesses one RedisManager spawns
MaxScans == 3           \* calls of RunScan
MaxAdds == 2            \* calls of AddToSet
Delay == 2       \* Debouncer.delay, in clock ticks
RingCap == 4     \* stands for the 10000 of handleDebouncedEvent
RingKeep == 2    \* stands for the 5000 of handleDebouncedEvent
SSECap == 2      \* stands for the capacity 100 of a live-stream channel
MaxFailCount == 3  \* stands for MaxFailCount = 10

Procs == 1..NumProcs

\* ------------------------------------------------------------- constants
RoleUnknown == "unknown"
RoleLeader == "leader"
RoleFollower == "follower"

Nil == [nil |-> TRUE]          \* a nil *LeaderLockInfo
Absent == [absent |-> TRUE]    \* the file does not exist
Partial == [partial |-> TRUE]  \* a file created or truncated but not fully written
NoAddr == 0                    \* storage.Client.client = nil
NoCmd == 0                     \* RedisManager.cmd = nil
TimerOff == -1                 \* a timer that is not armed
MaxRetries == 3

Paths == {"a", "b"}
FsEventTypes == {"add"}
URLs == {"http://hook", ":bad"}
Filters == {{}, {"add"}}
Chans == {"c1", "c2"}

VARIABLES
  pc,              \* position of each process in main / Election.Start / Stop / health loop
  role,            \* Election.role
  lockFile,        \* Election.lockFile # nil
  leaderInfo,      \* Election.leaderInfo
  isShuttingDown,  \* Election.isShuttingDown (stopChan closed)
  running,         \* RedisManager.running
  redisAlive,      \* the redis-server child spawned by the process is alive (OS)
  restarted,       \* RedisManager.cmd is a command spawned by a health-loop restart
  flock,           \* processes whose open file description holds the flock (kernel)
  infoFile,        \* content of <root>/locks/kv-leader.info
  tmpFile,         \* content of <root>/locks/kv-leader.info.tmp
  clientAddr,      \* storage.Client.client: address of the pool, NoAddr before Connect
  connected,       \* storage.Client.connected
  becameLeader,    \* onBecomeLeader has fired
  becameFollower,  \* argument of the onBecomeFollower call, Nil if it has not fired
  now,             \* wall clock (time.Now().UnixMilli())
  svcPc,           \* position of the registry Service of one service name
  svcInfo,         \* Service.info
  svcFile,         \* content of <root>/services/<name>.json
  svcTmp,          \* content of <root>/services/<name>.json.tmp
  wRunning,        \* Watcher.isRunning
  debPending,      \* Debouncer.pending: per path Nil or the PendingEvent
  debTimer,        \* PendingEvent.Timer: the instant it is armed for, TimerOff if not armed
  debFired,        \* a flush(key) goroutine started by a timer waits for Debouncer.mu
  debStopped,      \* Debouncer.stopped
  faPc,            \* position of a FlushAll() call
  faKeys,          \* FlushAll: keys collected and not yet flushed
  inflight,        \* callbacks that flush() has invoked and that have not returned
  lastAdd,         \* history: per path the most recent Add (event, instant, whether it met an entry)
  calls,           \* history: per path the callbacks invoked since the most recent Add
  eventBuffer,     \* Watcher.eventBuffer
  subscribers,     \* Dispatcher.subscribers
  webhookJobs,     \* dispatchToWebhooks goroutines that have not run yet
  deliveries,      \* deliverToWebhook goroutines
  sseClients,      \* Dispatcher.sseClients
  chanBuf,         \* content of each live-stream channel
  chanClosed,      \* channels that have been closed
  sseJobs,         \* dispatchToSSE calls in their send loop
  panicked,        \* the process has panicked
  lastSub,         \* history: the most recent Subscribe call, if nothing changed the map since
  mainPc,          \* position of main() of the process Main around its components
  httpSrv,         \* the http.Server of the process Main: "new", "listening", "shutdown"
  lastCall,        \* the most recent call of a read operation, with what it read and returned
  sup,             \* a RedisManager driven by any caller, with its children and monitors
  scan,            \* Watcher.isScanning, fileCount, lastScan and the RunScan goroutines
  kv               \* one set field in the store of each address, and the AddToSet calls

vars == << pc, role, lockFile, leaderInfo, isShuttingDown, running, redisAlive,
           restarted, flock, infoFile, tmpFile, clientAddr, connected, becameLeader, becameFollower, now,
           svcPc, svcInfo, svcFile, svcTmp,
           wRunning, debPending, debTimer, debFired, debStopped, faPc, faKeys, inflight,
           lastAdd, calls, eventBuffer, subscribers, webhookJobs, deliveries,
           sseClients, chanBuf, chanClosed, sseJobs, panicked, lastSub,
           mainPc, httpSrv, lastCall, sup, scan, kv >>

electionVars == << role, lockFile, leaderInfo, isShuttingDown >>
rmVars == << running, redisAlive >>
redisVars == << running, redisAlive, restarted >>
fileVars == << infoFile, tmpFile >>
callbackVars == << becameLeader, becameFollower >>
regVars == << svcPc, svcInfo, svcFile, svcTmp >>
procVars == << pc, electionVars, redisVars, flock, fileVars, clientAddr, connected, callbackVars >>
debVars == << wRunning, debPending, debTimer, debFired, debStopped, faPc, faKeys, inflight,
              lastAdd, calls >>
ringVars == << eventBuffer >>
dispVars == << subscribers, webhookJobs, deliveries, lastSub >>
sseVars == << sseClients, chanBuf, chanClosed, sseJobs, panicked >>
watcherVars == << debVars, ringVars, dispVars, sseVars >>
unitVars == << sup, scan, kv >>
mainVars == << mainPc, httpSrv, lastCall, unitVars >>

\* The process exists as an OS process (main has been entered and has not
\* returned, exited or been killed).
Up(p) == pc[p] \notin {"init", "failed", "notready", "crashed", "exited"}

\* The health-check goroutine of p exists.
LoopAlive(p) == pc[p] \in {"running", "hw1", "hw2"}

\* Variant: the lock descriptor is left open across exec of redis-server.
LockFdInheritedByChild == TRUE

\* os.OpenFile opens the lock file close-on-exec, so the redis-server child
\* does not inherit the descriptor that carries the flock.
LockFdInherited == FALSE

\* Variant: a shared lock (LOCK_SH) is requested, which never contends.
FlockShared(holders) == TRUE

\* syscall.Flock(fd, LOCK_EX|LOCK_NB): succeeds iff no other open file
\* description holds a lock on the file.
FlockExNb(holders) == holders = {}

\* buildLeaderInfo: host, URLs and pid all identify the process; the store
\* URL redis://<ip>:<port> is represented by the process it points at.
buildLeaderInfo(p) == [host |-> p, api |-> p, pid |-> p, timestamp |-> now]

\* NewWatcher, NewDebouncer, NewDispatcher.
WatcherInit ==
  /\ wRunning = FALSE
  /\ debPending = [k \in Paths |-> Nil]
  /\ debTimer = [k \in Paths |-> TimerOff]
  /\ debFired = [k \in Paths |-> FALSE]
  /\ debStopped = FALSE
  /\ faPc = "idle"
  /\ faKeys = {}
  /\ inflight = {}
  /\ lastAdd = [k \in Paths |-> Nil]
  /\ calls = [k \in Paths |-> 0]
  /\ eventBuffer = << >>
  /\ subscribers = << >>
  /\ webhookJobs = {}
  /\ deliveries = {}
  /\ sseClients = {}
  /\ chanBuf = [ch \in Chans |-> << >>]
  /\ chanClosed = {}
  /\ sseJobs = {}
  /\ panicked = FALSE
  /\ lastSub = Nil

Init ==
  /\ pc = [p \in Procs |-> "init"]
  /\ role = [p \in Procs |-> RoleUnknown]
  /\ lockFile = [p \in Procs |-> FALSE]
  /\ leaderInfo = [p \in Procs |-> Nil]
  /\ isShuttingDown = [p \in Procs |-> FALSE]
  /\ running = [p \in Procs |-> FALSE]
  /\ redisAlive = [p \in Procs |-> FALSE]
  /\ restarted = [p \in Procs |-> FALSE]
  /\ flock = {}
  /\ infoFile = Absent
  /\ tmpFile = Absent
  /\ clientAddr = [p \in Procs |-> NoAddr]
  /\ connected = [p \in Procs |-> FALSE]
  /\ becameLeader = [p \in Procs |-> FALSE]
  /\ becameFollower = [p \in Procs |-> Nil]
  /\ now = 0
  /\ svcPc = "off"
  /\ svcInfo = Nil
  /\ svcFile = Absent
  /\ svcTmp = Absent
  /\ WatcherInit
  /\ mainPc = "init"
  /\ httpSrv = "new"
  /\ lastCall = Nil
  /\ sup = [running |-> FALSE, cmd |-> NoCmd, spawned |-> 0, alive |-> {},
            monitors |-> {}, stopping |-> FALSE]
  /\ scan = [isScanning |-> FALSE, fileCount |-> 0, lastScan |-> 0, runs |-> {},
             triggered |-> 0, skipped |-> 0]
  /\ kv = [field |-> [a \in Procs |-> <<>>], op |-> [p \in Procs |-> Nil],
           result |-> [p \in Procs |-> Nil], adds |-> 0]

\* ------------------------------------------------------------- process end
\* The OS process p ends (return of main, os.Exit, or a kill): its memory,
\* the Election, RedisManager and storage client with it, is gone, and the
\* kernel closes its descriptors, which drops the flock unless a child
\* shares the open file description.  The redis-server child is a separate
\* OS process and is not touched.
ProcessEnds(p, how) ==
  /\ pc' = [pc EXCEPT ![p] = how]
  /\ flock' = IF LockFdInherited /\ redisAlive[p] THEN flock ELSE flock \ {p}
  /\ role' = [role EXCEPT ![p] = RoleUnknown]
  /\ lockFile' = [lockFile EXCEPT ![p] = FALSE]
  /\ leaderInfo' = [leaderInfo EXCEPT ![p] = Nil]
  /\ isShuttingDown' = [isShuttingDown EXCEPT ![p] = FALSE]
  /\ running' = [running EXCEPT ![p] = FALSE]
  /\ restarted' = [restarted EXCEPT ![p] = FALSE]
  /\ clientAddr' = [clientAddr EXCEPT ![p] = NoAddr]
  /\ connected' = [connected EXCEPT ![p] = FALSE]
  /\ becameLeader' = [becameLeader EXCEPT ![p] = FALSE]
  /\ becameFollower' = [becameFollower EXCEPT ![p] = Nil]
  /\ UNCHANGED << redisAlive, now >>

\* main: if err := election.Start(); err != nil { log.Fatalf(...) }.  The
\* process exits at once; no Stop() runs and the child is not signalled.
StartFails(p) == ProcessEnds(p, "failed")

\* The same exit when the error of Start is "Redis not ready".
StartFailsNotReady(p) == ProcessEnds(p, "notready")

\* ------------------------------------------------------------ Election.Start
\* Start up to the branch on tryAcquireLock; the winner enters
\* transitionToLeader (role = leader), a loser transitionToFollower.
StartAcquire(p) ==
  /\ pc[p] = "init"
  /\ IF FlockExNb(flock)
       THEN /\ flock' = flock \cup {p}
            /\ lockFile' = [lockFile EXCEPT ![p] = TRUE]
            /\ role' = [role EXCEPT ![p] = RoleLeader]
            /\ pc' = [pc EXCEPT ![p] = "acquired"]
       ELSE /\ role' = [role EXCEPT ![p] = RoleFollower]
            /\ pc' = [pc EXCEPT ![p] = "follow"]
            /\ UNCHANGED << flock, lockFile >>
  /\ UNCHANGED << leaderInfo, isShuttingDown, redisVars, fileVars, clientAddr, connected,
                  callbackVars, now >>
  /\ UNCHANGED << regVars, watcherVars, mainVars >>

\* MkdirAll, OpenFile or Flock fails with an I/O error: Start returns the
\* error.
StartLockError(p) ==
  /\ pc[p] = "init"
  /\ StartFails(p)
  /\ UNCHANGED fileVars
  /\ UNCHANGED << regVars, watcherVars, mainVars >>

\* ------------------------------------------------------ RedisManager.Start
\* spawnOk: whether exec of redis-server succeeds.  A start while running is
\* a no-op success.
RedisManagerStart(p, spawnOk) ==
  IF running[p] \/ ~spawnOk
    THEN UNCHANGED rmVars
    ELSE /\ running' = [running EXCEPT ![p] = TRUE]
         /\ redisAlive' = [redisAlive EXCEPT ![p] = TRUE]

\* ------------------------------------------------------- RedisManager.Stop
\* SIGTERM, wait up to 10 s, SIGKILL: when it returns the child has exited.
RedisManagerStop(p) ==
  IF ~running[p]
    THEN UNCHANGED rmVars
    ELSE /\ running' = [running EXCEPT ![p] = FALSE]
         /\ redisAlive' = [redisAlive EXCEPT ![p] = FALSE]

\* ------------------------------------------------- storage.Client.Connect
\* The pool is replaced by one for url (whether or not the ping succeeds).
\* The flag c.connected is set when the ping succeeds, which takes a store
\* that is alive at url, and is left as it was when the ping fails.
StorageConnect(p, url) ==
  /\ clientAddr' = [clientAddr EXCEPT ![p] = url]
  /\ \E pingOk \in BOOLEAN :
       /\ pingOk => redisAlive[url]
       /\ connected' = [connected EXCEPT ![p] = @ \/ pingOk]

\* ---------------------------------------------- Election.transitionToLeader
\* redisManager.Start(); a spawn error fails Start.
LeaderSpawn(p) ==
  /\ pc[p] = "acquired"
  /\ \/ /\ RedisManagerStart(p, TRUE)
        /\ pc' = [pc EXCEPT ![p] = "spawned"]
        /\ UNCHANGED << electionVars, restarted, flock, clientAddr, connected, callbackVars, now >>
     \/ StartFails(p)
  /\ UNCHANGED fileVars
  /\ UNCHANGED << regVars, watcherVars, mainVars >>

\* redisManager.WaitForReady(30 s): the ping succeeds only against a live
\* store; then buildLeaderInfo.  A timeout fails Start.
LeaderWaitReady(p) ==
  /\ pc[p] = "spawned"
  /\ \/ /\ redisAlive[p]
        /\ leaderInfo' = [leaderInfo EXCEPT ![p] = buildLeaderInfo(p)]
        /\ pc' = [pc EXCEPT ![p] = "ready"]
        /\ UNCHANGED << role, lockFile, isShuttingDown, redisVars, flock,
                        clientAddr, connected, callbackVars, now >>
     \/ StartFailsNotReady(p)
  /\ UNCHANGED fileVars
  /\ UNCHANGED << regVars, watcherVars, mainVars >>

\* ------------------------------------------------- Election.writeLeaderInfo
\* Variant: the JSON is written straight to the info path.
WriteInPlaceOpen == infoFile' = Partial /\ UNCHANGED tmpFile

\* os.WriteFile(tempPath) creates or truncates the temp file ...
WriteTmpOpen == tmpFile' = Partial /\ UNCHANGED infoFile
\* ... and then writes the JSON into it
WriteTmpData(info) == tmpFile' = info /\ UNCHANGED infoFile
\* os.Rename(tempPath, infoPath)
RenameTmp == tmpFile # Absent /\ infoFile' = tmpFile /\ tmpFile' = Absent

\* writeLeaderInfo in transitionToLeader, step by step; an I/O error at any
\* step fails Start.
LeaderWriteOpen(p) ==
  /\ pc[p] = "ready"
  /\ \/ /\ WriteTmpOpen
        /\ pc' = [pc EXCEPT ![p] = "lw1"]
        /\ UNCHANGED << electionVars, redisVars, flock, clientAddr, connected, callbackVars, now >>
     \/ StartFails(p) /\ UNCHANGED fileVars
  /\ UNCHANGED << regVars, watcherVars, mainVars >>

LeaderWriteData(p) ==
  /\ pc[p] = "lw1"
  /\ \/ /\ WriteTmpData(leaderInfo[p])
        /\ pc' = [pc EXCEPT ![p] = "lw2"]
        /\ UNCHANGED << electionVars, redisVars, flock, clientAddr, connected, callbackVars, now >>
     \/ StartFails(p) /\ UNCHANGED fileVars
  /\ UNCHANGED << regVars, watcherVars, mainVars >>

LeaderRename(p) ==
  /\ pc[p] = "lw2"
  /\ \/ /\ RenameTmp
        /\ pc' = [pc EXCEPT ![p] = "published"]
        /\ UNCHANGED << electionVars, redisVars, flock, clientAddr, connected, callbackVars, now >>
     \/ StartFails(p) /\ UNCHANGED fileVars
  /\ UNCHANGED << regVars, watcherVars, mainVars >>

\* Variant: the callback does not wait for writeLeaderInfo.
CallbackBeforePublish(p) == pc[p] \in {"ready", "published"}

\* transitionToLeader has returned from writeLeaderInfo without an error.
CallbackTurn(p) == pc[p] = "published"

\* storage.Connect(info.API) (a failure is only logged), onBecomeLeader,
\* and back in Start: go healthCheckLoop().
LeaderConnect(p) ==
  /\ CallbackTurn(p)
  /\ StorageConnect(p, leaderInfo[p].api)
  /\ becameLeader' = [becameLeader EXCEPT ![p] = TRUE]
  /\ pc' = [pc EXCEPT ![p] = "running"]
  /\ UNCHANGED << electionVars, redisVars, flock, fileVars, becameFollower, now >>
  /\ UNCHANGED << regVars, watcherVars, mainVars >>

\* -------------------------------------------- Election.transitionToFollower
\* readLeaderInfo: nil for a missing file, an error for an unreadable or
\* malformed one, else the coordinates.  With nil, Start goes straight on to
\* the health loop.
FollowerRead(p) ==
  /\ pc[p] = "follow"
  /\ \/ /\ infoFile = Absent
        /\ leaderInfo' = [leaderInfo EXCEPT ![p] = Nil]
        /\ pc' = [pc EXCEPT ![p] = "running"]
        /\ UNCHANGED << role, lockFile, isShuttingDown, redisVars, flock,
                        clientAddr, connected, callbackVars, now >>
     \/ /\ infoFile \notin {Absent, Partial}
        /\ leaderInfo' = [leaderInfo EXCEPT ![p] = infoFile]
        /\ pc' = [pc EXCEPT ![p] = "fconnect"]
        /\ UNCHANGED << role, lockFile, isShuttingDown, redisVars, flock,
                        clientAddr, connected, callbackVars, now >>
     \/ /\ infoFile # Absent
        /\ StartFails(p)
  /\ UNCHANGED fileVars
  /\ UNCHANGED << regVars, watcherVars, mainVars >>

\* info # nil: storage.Connect(info.API), onBecomeFollower(info); then the
\* health loop is started.
FollowerConnect(p) ==
  /\ pc[p] = "fconnect"
  /\ StorageConnect(p, leaderInfo[p].api)
  /\ becameFollower' = [becameFollower EXCEPT ![p] = leaderInfo[p]]
  /\ pc' = [pc EXCEPT ![p] = "running"]
  /\ UNCHANGED << electionVars, redisVars, flock, fileVars, becameLeader, now >>
  /\ UNCHANGED << regVars, watcherVars, mainVars >>

\* ------------------------------------------------ Election.performHealthCheck
\* Variant: the tick does not look at the store.
CheckRedisNoRestart(p) == UNCHANGED redisVars

\* The end of a leader tick: if !IsRunning() then Start(); an error is only
\* logged.
CheckRedis(p) ==
  \E spawnOk \in BOOLEAN :
    /\ RedisManagerStart(p, spawnOk)
    /\ restarted' = [restarted EXCEPT ![p] = @ \/ (~running[p] /\ spawnOk)]

\* Variant: the tick writes a timestamp taken one clock step earlier.
TickTimestampBehind == IF now > 0 THEN now - 1 ELSE now

\* updateLeaderTimestamp: time.Now().UnixMilli()
TickTimestamp == now

\* A tick of the leader's health loop, up to the creation of the temp file:
\* updateLeaderTimestamp refreshes leaderInfo.Timestamp and starts
\* writeLeaderInfo.  If the temp file cannot be opened the error is logged
\* and the tick goes on to the Redis check.  After close(stopChan) the
\* select may still pick a ticker event that is ready.
LeaderTickOpen(p) ==
  /\ pc[p] = "running"
  /\ role[p] = RoleLeader
  /\ IF leaderInfo[p] = Nil
       THEN /\ CheckRedis(p)
            /\ UNCHANGED << leaderInfo, fileVars, pc >>
       ELSE /\ leaderInfo' = [leaderInfo EXCEPT ![p].timestamp = TickTimestamp]
            /\ \/ /\ WriteTmpOpen
                  /\ pc' = [pc EXCEPT ![p] = "hw1"]
                  /\ UNCHANGED redisVars
               \/ /\ CheckRedis(p)
                  /\ UNCHANGED << fileVars, pc >>
  /\ UNCHANGED << role, lockFile, isShuttingDown, flock, clientAddr, connected, callbackVars, now >>
  /\ UNCHANGED << regVars, watcherVars, mainVars >>

LeaderTickData(p) ==
  /\ pc[p] = "hw1"
  /\ \/ /\ WriteTmpData(leaderInfo[p])
        /\ pc' = [pc EXCEPT ![p] = "hw2"]
        /\ UNCHANGED redisVars
     \/ /\ CheckRedis(p)
        /\ pc' = [pc EXCEPT ![p] = "running"]
        /\ UNCHANGED fileVars
  /\ UNCHANGED << electionVars, flock, clientAddr, connected, callbackVars, now >>
  /\ UNCHANGED << regVars, watcherVars, mainVars >>

\* The rename that ends writeLeaderInfo, then the Redis check of the tick.
LeaderTickRename(p) ==
  /\ pc[p] = "hw2"
  /\ \/ RenameTmp
     \/ UNCHANGED fileVars
  /\ CheckRedis(p)
  /\ pc' = [pc EXCEPT ![p] = "running"]
  /\ UNCHANGED << electionVars, flock, clientAddr, connected, callbackVars, now >>
  /\ UNCHANGED << regVars, watcherVars, mainVars >>

\* Variant: a follower tick that retries the lock and promotes itself.
FollowerTickPromotes(p) ==
  /\ pc[p] = "running"
  /\ role[p] = RoleFollower
  /\ IF FlockExNb(flock)
       THEN /\ flock' = flock \cup {p}
            /\ lockFile' = [lockFile EXCEPT ![p] = TRUE]
            /\ role' = [role EXCEPT ![p] = RoleLeader]
       ELSE UNCHANGED << flock, lockFile, role >>
  /\ UNCHANGED << pc, leaderInfo, isShuttingDown, redisVars, fileVars,
                  clientAddr, connected, callbackVars, now >>
  /\ UNCHANGED << regVars, watcherVars, mainVars >>

\* A tick of a follower's health loop: re-read the leader info and keep it
\* if there is one (a read error is logged).
FollowerTick(p) ==
  /\ pc[p] = "running"
  /\ role[p] = RoleFollower
  /\ leaderInfo' = [leaderInfo EXCEPT ![p] =
                      IF infoFile \in {Absent, Partial} THEN @ ELSE infoFile]
  /\ UNCHANGED << pc, role, lockFile, isShuttingDown, redisVars, flock, fileVars,
                  clientAddr, connected, callbackVars, now >>
  /\ UNCHANGED << regVars, watcherVars, mainVars >>

\* ------------------------------------------------------------- Election.Stop
\* Variant: Stop releases the lock before it waits for the health loop.
StopSignalReleasesFirst(p) ==
  /\ LoopAlive(p)
  /\ ~isShuttingDown[p]
  /\ isShuttingDown' = [isShuttingDown EXCEPT ![p] = TRUE]
  /\ flock' = flock \ {p}
  /\ lockFile' = [lockFile EXCEPT ![p] = FALSE]
  /\ UNCHANGED << pc, role, leaderInfo, redisVars, fileVars, clientAddr, connected,
                  callbackVars, now >>
  /\ UNCHANGED << regVars, watcherVars, mainVars >>

\* main received SIGINT/SIGTERM: isShuttingDown = true, close(stopChan); the
\* caller then blocks in wg.Wait().
StopSignal(p) ==
  /\ LoopAlive(p)
  /\ ~isShuttingDown[p]
  /\ isShuttingDown' = [isShuttingDown EXCEPT ![p] = TRUE]
  /\ UNCHANGED << pc, role, lockFile, leaderInfo, redisVars, flock, fileVars,
                  clientAddr, connected, callbackVars, now >>
  /\ UNCHANGED << regVars, watcherVars, mainVars >>

\* The health loop sees stopChan closed between two ticks and returns;
\* wg.Wait() in Stop returns.
StopLoopExit(p) ==
  /\ pc[p] = "running"
  /\ isShuttingDown[p]
  /\ pc' = [pc EXCEPT ![p] = "loopdone"]
  /\ UNCHANGED << electionVars, redisVars, flock, fileVars, clientAddr, connected,
                  callbackVars, now >>
  /\ UNCHANGED << regVars, watcherVars, mainVars >>

\* if e.Role() == RoleLeader { e.redisManager.Stop() }
StopRedis(p) ==
  /\ pc[p] = "loopdone"
  /\ IF role[p] = RoleLeader
       THEN RedisManagerStop(p)
       ELSE UNCHANGED rmVars
  /\ pc' = [pc EXCEPT ![p] = "redisstopped"]
  /\ UNCHANGED << electionVars, restarted, flock, fileVars, clientAddr, connected, callbackVars, now >>
  /\ UNCHANGED << regVars, watcherVars, mainVars >>

\* e.releaseLock(): LOCK_UN and close, if a lock file is held.
StopReleaseLock(p) ==
  /\ pc[p] = "redisstopped"
  /\ IF lockFile[p]
       THEN /\ flock' = flock \ {p}
            /\ lockFile' = [lockFile EXCEPT ![p] = FALSE]
       ELSE UNCHANGED << flock, lockFile >>
  /\ pc' = [pc EXCEPT ![p] = "released"]
  /\ UNCHANGED << role, leaderInfo, isShuttingDown, redisVars, fileVars,
                  clientAddr, connected, callbackVars, now >>
  /\ UNCHANGED << regVars, watcherVars, mainVars >>

\* storageClient.Close() and the return of main.
MainExit(p) ==
  /\ pc[p] = "released"
  /\ ProcessEnds(p, "exited")
  /\ UNCHANGED fileVars
  /\ UNCHANGED << regVars, watcherVars, mainVars >>

\* -------------------------------------------------------------- environment
\* The process is killed (SIGKILL) or crashes at any point.
Crash(p) ==
  /\ Up(p)
  /\ ProcessEnds(p, "crashed")
  /\ UNCHANGED fileVars
  /\ UNCHANGED << regVars, watcherVars, mainVars >>

\* The redis-server child of p exits on its own.  If it was the last holder
\* of an inherited lock descriptor the flock goes with it.
RedisExit(p) ==
  /\ redisAlive[p]
  /\ redisAlive' = [redisAlive EXCEPT ![p] = FALSE]
  /\ flock' = IF Up(p) THEN flock ELSE flock \ {p}
  /\ UNCHANGED << pc, electionVars, running, restarted, fileVars, clientAddr, connected,
                  callbackVars, now >>
  /\ UNCHANGED << regVars, watcherVars, mainVars >>

\* Variant: the monitor clears the flag without waiting for the child.
WaitReturnsEarly(p) == TRUE

\* monitorProcess: rm.cmd.Wait() returns when the child has exited.
WaitReturned(p) == ~redisAlive[p]

\* RedisManager.monitorProcess: cmd.Wait() has returned, running = false.
MonitorProcess(p) ==
  /\ Up(p)
  /\ running[p]
  /\ WaitReturned(p)
  /\ running' = [running EXCEPT ![p] = FALSE]
  /\ UNCHANGED << pc, electionVars, redisAlive, restarted, flock, fileVars, clientAddr, connected,
                  callbackVars, now >>
  /\ UNCHANGED << regVars, watcherVars, mainVars >>

\* Time passes.
Tick ==
  /\ now < MaxTime
  /\ now' = now + 1
  /\ UNCHANGED << pc, electionVars, redisVars, flock, fileVars, clientAddr, connected,
                  callbackVars >>
  /\ UNCHANGED << regVars, watcherVars, mainVars >>

\* ========================================================= discovery.Service
\* The registry Service of one service name (the file name is the primary
\* key, so one process at a time writes it) and the files it publishes.
Statuses == {"running", "busy"}

\* time.Time.Format(time.RFC3339): the instant cut down to whole seconds.
FormatRFC3339(t) == t \div TicksPerSecond

\* time.Parse(time.RFC3339, s): the instant at which the second s begins.
ParseRFC3339(sec) == sec * TicksPerSecond

\* buildServiceInfo
buildServiceInfo ==
  [name |-> "svc", status |-> "running", lastHeartbeat |-> FormatRFC3339(now)]

\* writeServiceInfo: os.WriteFile(tempPath) creates or truncates the temp file,
SvcWriteTmpOpen == svcTmp' = Partial /\ UNCHANGED svcFile
\* then writes the JSON into it;
SvcWriteTmpData(info) == svcTmp' = info /\ UNCHANGED svcFile
\* os.Rename(tempPath, serviceFile).
SvcRenameTmp == svcTmp # Absent /\ svcFile' = svcTmp /\ svcTmp' = Absent

\* The service process is gone (log.Fatalf after a failed Start, a kill, or
\* the return of main).
SvcProcessEnds == svcPc' = "off" /\ svcInfo' = Nil

\* Service.Start up to the creation of the temp file in register(); a new
\* process of the service may start whenever none is running.
SvcStart ==
  /\ svcPc = "off"
  /\ svcInfo' = buildServiceInfo
  /\ SvcWriteTmpOpen
  /\ svcPc' = "reg1"
  /\ UNCHANGED << procVars, now, watcherVars, mainVars >>

SvcRegisterData ==
  /\ svcPc = "reg1"
  /\ \/ SvcWriteTmpData(svcInfo) /\ svcPc' = "reg2" /\ UNCHANGED svcInfo
     \/ SvcProcessEnds /\ UNCHANGED << svcFile, svcTmp >>
  /\ UNCHANGED << procVars, now, watcherVars, mainVars >>

\* The rename of register(); then Start launches the heartbeat loop.
SvcRegisterRename ==
  /\ svcPc = "reg2"
  /\ \/ SvcRenameTmp /\ svcPc' = "idle" /\ UNCHANGED svcInfo
     \/ SvcProcessEnds /\ UNCHANGED << svcFile, svcTmp >>
  /\ UNCHANGED << procVars, now, watcherVars, mainVars >>

\* heartbeat(), under s.mu: refresh LastHeartbeat and start writeServiceInfo;
\* an I/O error is logged.
SvcHeartbeat ==
  /\ svcPc = "idle"
  /\ svcInfo' = [svcInfo EXCEPT !.lastHeartbeat = FormatRFC3339(now)]
  /\ \/ SvcWriteTmpOpen /\ svcPc' = "w1"
     \/ UNCHANGED << svcPc, svcFile, svcTmp >>
  /\ UNCHANGED << procVars, now, watcherVars, mainVars >>

\* UpdateStatus(status), under s.mu: set Status and LastHeartbeat and start
\* writeServiceInfo; an I/O error is returned.
SvcUpdateStatus ==
  /\ svcPc = "idle"
  /\ \E st \in Statuses :
       svcInfo' = [svcInfo EXCEPT !.status = st, !.lastHeartbeat = FormatRFC3339(now)]
  /\ \/ SvcWriteTmpOpen /\ svcPc' = "w1"
     \/ UNCHANGED << svcPc, svcFile, svcTmp >>
  /\ UNCHANGED << procVars, now, watcherVars, mainVars >>

\* writeServiceInfo of heartbeat or UpdateStatus, still under s.mu: the data,
SvcWriteData ==
  /\ svcPc = "w1"
  /\ \/ SvcWriteTmpData(svcInfo) /\ svcPc' = "w2"
     \/ svcPc' = "idle" /\ UNCHANGED << svcFile, svcTmp >>
  /\ UNCHANGED << svcInfo, procVars, now, watcherVars, mainVars >>

\* and the rename; s.mu is released.
SvcWriteRename ==
  /\ svcPc = "w2"
  /\ \/ SvcRenameTmp
     \/ UNCHANGED << svcFile, svcTmp >>
  /\ svcPc' = "idle"
  /\ UNCHANGED << svcInfo, procVars, now, watcherVars, mainVars >>

\* Service.Stop: the heartbeat loop has returned; the service file is
\* removed, and main goes on to exit.
SvcStopEffect ==
  /\ svcFile' = Absent
  /\ SvcProcessEnds
  /\ UNCHANGED svcTmp

\* Variant: Stop() removes the file without waiting for the heartbeat loop.
StopInterruptsLoop == svcPc \in {"idle", "w1", "w2"}

\* Stop(): close(s.stopChan) and s.wg.Wait() return once heartbeatLoop has
\* left its select, hence between two heartbeats.
StopWaitsForLoop == svcPc = "idle"

SvcStop ==
  /\ StopWaitsForLoop
  /\ SvcStopEffect
  /\ UNCHANGED << procVars, now, watcherVars, mainVars >>

\* The service process is killed.
SvcCrash ==
  /\ svcPc # "off"
  /\ SvcProcessEnds
  /\ UNCHANGED << svcFile, svcTmp, procVars, now, watcherVars, mainVars >>

\* What a failed read or parse returns.
ReadError == [error |-> TRUE]

\* Variant: a heartbeat as old as the threshold already counts as stale.
StaleFrom(age) == age >= StaleThreshold

\* Discover: time.Since(lastHeartbeat) > staleThreshold
IsStale(age) == age > StaleThreshold

\* Service.Discover(name) on the content of <servicesDir>/<name>.json: nil
\* for a missing file, an error for one that does not parse, else the
\* stored info, with Status overwritten in the returned copy when stale.
Discover(file) ==
  IF file = Absent THEN Nil
  ELSE IF file = Partial THEN ReadError
  ELSE IF IsStale(now - ParseRFC3339(file.lastHeartbeat))
    THEN [file EXCEPT !.status = "stale"]
    ELSE file

\* Service.DiscoverAll(): Discover for every .json entry of the directory;
\* entries that fail are logged and skipped.
DiscoverAll(file) ==
  IF Discover(file) \in {Nil, ReadError} THEN << >> ELSE << Discover(file) >>

\* A peer calls Discover(name) or DiscoverAll().
DiscoverCall(op) ==
  /\ lastCall' = [op |-> op, at |-> now, read |-> svcFile,
                  result |-> IF op = "Discover" THEN Discover(svcFile)
                                                ELSE DiscoverAll(svcFile)]
  /\ lastCall' # lastCall
  /\ UNCHANGED << unitVars, mainPc, httpSrv, regVars, procVars, now, watcherVars >>

RegistryNext ==
  \/ SvcStart
  \/ SvcRegisterData
  \/ SvcRegisterRename
  \/ SvcHeartbeat
  \/ SvcUpdateStatus
  \/ SvcWriteData
  \/ SvcWriteRename
  \/ SvcStop
  \/ SvcCrash

\* =================================================================== watcher
\* The file watcher of one process: fsnotify events go through the
\* Debouncer, whose callback appends to the event ring and dispatches.

\* The FileEvent built by handleFsEvent (Size is left out; PartialHash is
\* added by handleDebouncedEvent and read by nobody here).
FileEvent(t, k) == [type |-> t, path |-> k, timestamp |-> now]

\* ---------------------------------------------------------------- Debouncer
\* time.Since(pending.LastSeen)
Elapsed(key) == now - debPending[key].lastSeen

\* Variant: flush emits whatever the time since the last Add.
ElapsedIgnored(key) == Delay

\* What flush compares with d.delay.
ElapsedChecked(key) == Elapsed(key)

\* Debouncer.flush(key), run by a timer goroutine or by FlushAll.  When the
\* entry is removed while its timer is armed (the caller was not that timer),
\* the timer is due and still fires a flush(key) later on.
flush(key, by) ==
  IF debPending[key] = Nil
    THEN /\ debFired' = [debFired EXCEPT ![key] = IF by = "timer" THEN FALSE ELSE @]
         /\ UNCHANGED << debPending, debTimer, inflight, calls >>
    ELSE IF ElapsedChecked(key) < Delay
      THEN /\ debTimer' = [debTimer EXCEPT ![key] = now + (Delay - ElapsedChecked(key))]
           /\ debFired' = [debFired EXCEPT ![key] = IF by = "timer" THEN FALSE ELSE @]
           /\ UNCHANGED << debPending, inflight, calls >>
      ELSE /\ debPending' = [debPending EXCEPT ![key] = Nil]
           /\ debTimer' = [debTimer EXCEPT ![key] = TimerOff]
           /\ debFired' = [debFired EXCEPT ![key] =
                             IF debTimer[key] # TimerOff THEN TRUE
                             ELSE IF by = "timer" THEN FALSE ELSE @]
           /\ inflight' = inflight \cup {[event |-> debPending[key].event, by |-> by]}
           /\ calls' = [calls EXCEPT ![key] = @ + 1]

\* Debouncer.Add(event)
Add(event) ==
  IF debStopped
    THEN UNCHANGED << debPending, debTimer, lastAdd, calls >>
    ELSE /\ debPending' = [debPending EXCEPT ![event.path] =
                             [event |-> event, lastSeen |-> now]]
         /\ debTimer' = [debTimer EXCEPT ![event.path] = now + Delay]
         /\ lastAdd' = [lastAdd EXCEPT ![event.path] =
                          [event |-> event, at |-> now,
                           merged |-> debPending[event.path] # Nil]]
         /\ calls' = [calls EXCEPT ![event.path] = 0]

\* Watcher.Start
WatcherStartEffect ==
  /\ wRunning' = TRUE
  /\ UNCHANGED << debPending, debTimer, debFired, debStopped, faPc, faKeys, inflight,
                  lastAdd, calls >>

WatcherStart ==
  /\ ~wRunning
  /\ ~debStopped
  /\ WatcherStartEffect
  /\ UNCHANGED << ringVars, dispVars, sseVars, procVars, regVars, now, mainVars >>

\* Watcher.handleFsEvent: processEvents hands an fsnotify event of a path
\* to the debouncer.  An event is taken only while a quiet window still
\* fits before the end of the clock.
HandleFsEvent(t, k) ==
  /\ wRunning
  /\ ~debStopped
  /\ now + Delay <= MaxTime
  /\ Add(FileEvent(t, k))
  /\ UNCHANGED << wRunning, debFired, debStopped, faPc, faKeys, inflight >>
  /\ UNCHANGED << ringVars, dispVars, sseVars, procVars, regVars, now, mainVars >>

\* The timer of a pending entry fires: time.AfterFunc starts a goroutine
\* that calls flush(key).
TimerFire(k) ==
  /\ debTimer[k] # TimerOff
  /\ now >= debTimer[k]
  /\ debTimer' = [debTimer EXCEPT ![k] = TimerOff]
  /\ debFired' = [debFired EXCEPT ![k] = TRUE]
  /\ UNCHANGED << wRunning, debPending, debStopped, faPc, faKeys, inflight, lastAdd, calls >>
  /\ UNCHANGED << ringVars, dispVars, sseVars, procVars, regVars, now, mainVars >>

\* The goroutine of a fired timer gets the mutex and runs flush(key).
TimerFlush(k) ==
  /\ debFired[k]
  /\ flush(k, "timer")
  /\ UNCHANGED << wRunning, debStopped, faPc, faKeys, lastAdd >>
  /\ UNCHANGED << ringVars, dispVars, sseVars, procVars, regVars, now, mainVars >>

\* Debouncer.FlushAll: the keys are collected under the mutex,
FlushAllStart ==
  /\ faPc = "idle"
  /\ faPc' = "run"
  /\ faKeys' = {k \in Paths : debPending[k] # Nil}
  /\ UNCHANGED << wRunning, debPending, debTimer, debFired, debStopped, inflight, lastAdd, calls >>
  /\ UNCHANGED << ringVars, dispVars, sseVars, procVars, regVars, now, mainVars >>

\* then flush(key) is called for each of them, one after the other: the
\* callback of one flush returns before the next flush begins.
FlushAllStep(k) ==
  /\ faPc = "run"
  /\ k \in faKeys
  /\ \A c \in inflight : c.by # "flushAll"
  /\ flush(k, "flushAll")
  /\ faKeys' = faKeys \ {k}
  /\ UNCHANGED << wRunning, debStopped, faPc, lastAdd >>
  /\ UNCHANGED << ringVars, dispVars, sseVars, procVars, regVars, now, mainVars >>

FlushAllReturn ==
  /\ faPc = "run"
  /\ faKeys = {}
  /\ \A c \in inflight : c.by # "flushAll"
  /\ faPc' = "idle"
  /\ UNCHANGED << wRunning, debPending, debTimer, debFired, debStopped, faKeys, inflight,
                  lastAdd, calls >>
  /\ UNCHANGED << ringVars, dispVars, sseVars, procVars, regVars, now, mainVars >>

\* Variant: Stop stops the timers and keeps the map.
PendingKept == debPending

\* Debouncer.Stop: d.pending = make(map[string]*PendingEvent)
PendingCleared == [k \in Paths |-> Nil]

\* Watcher.Stop: isRunning = false, close(stopChan), Debouncer.Stop (the
\* timers of the pending entries are stopped, the map is replaced).
WatcherStopEffect ==
  /\ wRunning' = FALSE
  /\ debStopped' = TRUE
  /\ debTimer' = [k \in Paths |-> TimerOff]
  /\ debPending' = PendingCleared
  /\ UNCHANGED << debFired, faPc, faKeys, inflight, lastAdd, calls >>

WatcherStop ==
  /\ wRunning
  /\ WatcherStopEffect
  /\ UNCHANGED << ringVars, dispVars, sseVars, procVars, regVars, now, mainVars >>

\* processEvents had taken an fsnotify event before stopChan was closed
\* and its handleFsEvent reaches Debouncer.Add after Debouncer.Stop.
AddAfterStop(t, k) ==
  /\ debStopped
  /\ Add(FileEvent(t, k))
  /\ lastCall' = [op |-> "Add", event |-> FileEvent(t, k)]
  /\ lastCall' # lastCall
  /\ UNCHANGED << wRunning, debFired, debStopped, faPc, faKeys, inflight >>
  /\ UNCHANGED << ringVars, dispVars, sseVars, procVars, regVars, now,
                  mainPc, httpSrv, unitVars >>

\* ------------------------------------------------------------- Dispatcher
\* http.NewRequest fails on a URL that does not parse.
ValidURL(u) == u # ":bad"

\* The event-type filter in dispatchToWebhooks: empty means all.
\* Variant: the event type filter is not consulted.
AcceptsAnyType(sub, event) == TRUE

Accepts(sub, event) == sub.eventTypes = {} \/ event.type \in sub.eventTypes

\* Variant: a URL that is already subscribed keeps its entry.
SubscribeIfAbsent(url, eventTypes) ==
  subscribers' =
    [u \in DOMAIN subscribers \cup {url} |->
       IF u \in DOMAIN subscribers THEN subscribers[u]
       ELSE [url |-> url, registeredAt |-> now, eventTypes |-> eventTypes,
             lastDelivery |-> 0, failCount |-> 0]]

\* d.subscribers[url] = &Subscriber{...}
SubscribeEntry(url, eventTypes) ==
  subscribers' =
    [u \in DOMAIN subscribers \cup {url} |->
       IF u = url
         THEN [url |-> url, registeredAt |-> now, eventTypes |-> eventTypes,
               lastDelivery |-> 0, failCount |-> 0]
         ELSE subscribers[u]]

\* Dispatcher.Subscribe
Subscribe(url, eventTypes) ==
  /\ ~panicked
  /\ SubscribeEntry(url, eventTypes)
  /\ lastSub' = [url |-> url, eventTypes |-> eventTypes,
                 replaced |-> IF url \in DOMAIN subscribers
                                THEN {subscribers[url].eventTypes} ELSE {}]
  /\ UNCHANGED << webhookJobs, deliveries >>
  /\ UNCHANGED << debVars, ringVars, sseVars, procVars, regVars, now, mainVars >>

\* Dispatcher.Unsubscribe
Unsubscribe(url) ==
  /\ ~panicked
  /\ subscribers' = [u \in DOMAIN subscribers \ {url} |-> subscribers[u]]
  /\ lastSub' = Nil
  /\ UNCHANGED << webhookJobs, deliveries >>
  /\ UNCHANGED << debVars, ringVars, sseVars, procVars, regVars, now, mainVars >>

\* Dispatcher.ListSubscribers
ListSubscribers == {subscribers[u] : u \in DOMAIN subscribers}

\* Dispatcher.Dispatch(event): go dispatchToWebhooks(event), then
\* dispatchToSSE(event), which copies the client set under the read lock
\* and sends afterwards.
Dispatch(event) ==
  /\ webhookJobs' = webhookJobs \cup {event}
  /\ sseJobs' = IF sseClients = {} THEN sseJobs
                ELSE sseJobs \cup {[event |-> event, clients |-> sseClients,
                                   todo |-> sseClients, dropped |-> {}]}
  /\ UNCHANGED << subscribers, deliveries, lastSub, sseClients, chanBuf, chanClosed, panicked >>

\* dispatchToWebhooks: the subscribers are copied under the read lock and a
\* deliverToWebhook goroutine is started for each whose filter accepts.
DispatchToWebhooks(event) ==
  /\ ~panicked
  /\ event \in webhookJobs
  /\ webhookJobs' = webhookJobs \ {event}
  /\ deliveries' = deliveries \cup
       { [url |-> u, event |-> event, attempt |-> 0, posts |-> 0, status |-> "try"] :
           u \in {v \in DOMAIN subscribers : Accepts(subscribers[v], event)} }
  /\ UNCHANGED << subscribers, lastSub >>
  /\ UNCHANGED << debVars, ringVars, sseVars, procVars, regVars, now, mainVars >>

\* Variant: the loop goes on after a 2xx response.
LoopGoesOn(d) == d.attempt < MaxRetries

\* The retry loop runs while attempt < MaxRetries and no 2xx has made it
\* return.
LoopContinues(d) == d.status = "try" /\ d.attempt < MaxRetries

\* One round of the retry loop of deliverToWebhook.  A request that cannot
\* be built is not sent; a sent request is answered 2xx or fails (error or
\* other status).
DeliverAttempt(d, resp) ==
  /\ ~panicked
  /\ d \in deliveries
  /\ LoopContinues(d)
  /\ deliveries' = (deliveries \ {d}) \cup
       { IF ~ValidURL(d.url) THEN [d EXCEPT !.attempt = @ + 1]
         ELSE IF resp = "2xx" THEN [d EXCEPT !.posts = @ + 1, !.status = "ok"]
         ELSE [d EXCEPT !.posts = @ + 1, !.attempt = @ + 1] }
  /\ UNCHANGED << subscribers, webhookJobs, lastSub >>
  /\ UNCHANGED << debVars, ringVars, sseVars, procVars, regVars, now, mainVars >>

\* After a 2xx: under the mutex, LastDelivery = NowMS(), FailCount = 0; return.
DeliverSuccess(d) ==
  /\ ~panicked
  /\ d \in deliveries
  /\ d.status = "ok"
  /\ deliveries' = deliveries \ {d}
  /\ subscribers' = IF d.url \in DOMAIN subscribers
                      THEN [subscribers EXCEPT ![d.url].lastDelivery = now,
                                               ![d.url].failCount = 0]
                      ELSE subscribers
  /\ lastSub' = Nil
  /\ UNCHANGED webhookJobs
  /\ UNCHANGED << debVars, ringVars, sseVars, procVars, regVars, now, mainVars >>

\* Variant: the subscriber is removed only above MaxFailCount.
EvictLate(failCount) == failCount > MaxFailCount

\* if sub.FailCount >= MaxFailCount
Evict(failCount) == failCount >= MaxFailCount

\* All retries failed: under the mutex, FailCount++ and the removal.
DeliverExhausted(d) ==
  /\ ~panicked
  /\ d \in deliveries
  /\ d.status = "try"
  /\ d.attempt = MaxRetries
  /\ deliveries' = deliveries \ {d}
  /\ subscribers' =
       IF d.url \notin DOMAIN subscribers THEN subscribers
       ELSE IF Evict(subscribers[d.url].failCount + 1)
         THEN [u \in DOMAIN subscribers \ {d.url} |-> subscribers[u]]
         ELSE [subscribers EXCEPT ![d.url].failCount = @ + 1]
  /\ lastSub' = Nil
  /\ UNCHANGED webhookJobs
  /\ UNCHANGED << debVars, ringVars, sseVars, procVars, regVars, now, mainVars >>

\* Some caller dispatches an event (an event that is not being delivered
\* already).
DispatchEvent(event) ==
  /\ ~panicked
  /\ event \notin webhookJobs
  /\ \A d \in deliveries : d.event # event
  /\ \A j \in sseJobs : j.event # event
  /\ Dispatch(event)
  /\ UNCHANGED << debVars, ringVars, procVars, regVars, now, mainVars >>

\* ------------------------------------------------------------ live streams
\* handleSSESubscribe: make(chan FileEvent, 100) and AddSSEClient.
SSEConnect(ch) ==
  /\ ~panicked
  /\ ch \notin sseClients \cup chanClosed
  /\ sseClients' = sseClients \cup {ch}
  /\ UNCHANGED << chanBuf, chanClosed, sseJobs, panicked >>
  /\ UNCHANGED << debVars, ringVars, dispVars, procVars, regVars, now, mainVars >>

\* handleSSESubscribe: the stream loop takes an event from the channel and
\* writes it to the response.
SSEStream(ch) ==
  /\ ~panicked
  /\ ch \in sseClients
  /\ chanBuf[ch] # << >>
  /\ chanBuf' = [chanBuf EXCEPT ![ch] = Tail(@)]
  /\ UNCHANGED << sseClients, chanClosed, sseJobs, panicked >>
  /\ UNCHANGED << debVars, ringVars, dispVars, procVars, regVars, now, mainVars >>

\* The request context is done: the deferred RemoveSSEClient deletes the
\* channel from the set and closes it.
SSEDisconnect(ch) ==
  /\ ~panicked
  /\ ch \in sseClients
  /\ sseClients' = sseClients \ {ch}
  /\ chanClosed' = chanClosed \cup {ch}
  /\ UNCHANGED << chanBuf, sseJobs, panicked >>
  /\ UNCHANGED << debVars, ringVars, dispVars, procVars, regVars, now, mainVars >>

\* Variant: a plain send, which waits for room in the channel.
SendBlocks(ch) == Len(chanBuf[ch]) >= SSECap

\* select { case ch <- event: default: }: the send never waits.
SendWaits(ch) == FALSE

\* One iteration of the send loop of dispatchToSSE: the event is queued if
\* the channel has room and dropped otherwise; a send on a closed channel
\* panics.
SSESend(j, ch) ==
  /\ ~panicked
  /\ j \in sseJobs
  /\ ch \in j.todo
  /\ ~SendWaits(ch)
  /\ IF ch \in chanClosed
       THEN /\ panicked' = TRUE
            /\ UNCHANGED << chanBuf, sseJobs >>
       ELSE /\ chanBuf' = [chanBuf EXCEPT ![ch] =
                             IF Len(@) < SSECap THEN Append(@, j.event) ELSE @]
            /\ sseJobs' = (sseJobs \ {j}) \cup
                 {[j EXCEPT !.todo = @ \ {ch},
                            !.dropped = IF Len(chanBuf[ch]) < SSECap THEN @ ELSE @ \cup {ch}]}
            /\ UNCHANGED panicked
  /\ UNCHANGED << sseClients, chanClosed >>
  /\ UNCHANGED << debVars, ringVars, dispVars, procVars, regVars, now, mainVars >>

\* dispatchToSSE has gone through its copy of the client set: it returns,
\* and with it Dispatch.
DispatchToSSEReturn(j) ==
  /\ ~panicked
  /\ j \in sseJobs
  /\ j.todo = {}
  /\ sseJobs' = sseJobs \ {j}
  /\ UNCHANGED << sseClients, chanBuf, chanClosed, panicked >>
  /\ UNCHANGED << debVars, ringVars, dispVars, procVars, regVars, now, mainVars >>

\* ---------------------------------------------------------------- event ring
\* Variant: the oldest events are kept.
RingTruncateOldest(buf) == SubSeq(buf, 1, RingKeep)

\* w.eventBuffer[len(w.eventBuffer)-5000:]
RingTruncate(buf) == SubSeq(buf, Len(buf) - RingKeep + 1, Len(buf))

\* append, then "if len(w.eventBuffer) > 10000" the truncation.
AppendEvent(buf, event) ==
  IF Len(buf) + 1 > RingCap THEN RingTruncate(Append(buf, event)) ELSE Append(buf, event)

\* Watcher.handleDebouncedEvent, the callback of the debouncer: the event
\* is appended to the ring under Watcher.mu and then dispatched.
HandleDebouncedEvent(c) ==
  /\ ~panicked
  /\ c \in inflight
  /\ inflight' = inflight \ {c}
  /\ eventBuffer' = AppendEvent(eventBuffer, c.event)
  /\ Dispatch(c.event)
  /\ UNCHANGED << wRunning, debPending, debTimer, debFired, debStopped, faPc, faKeys,
                  lastAdd, calls >>
  /\ UNCHANGED << procVars, regVars, now, mainVars >>

\* Watcher.GetRecentEvents(sinceMS, limit)
RECURSIVE GetRecentFrom(_, _, _, _)
GetRecentFrom(buf, i, sinceMS, limit) ==
  IF i > Len(buf) THEN << >>
  ELSE IF buf[i].timestamp > sinceMS
    THEN IF limit = 1 THEN << buf[i] >>
         ELSE << buf[i] >> \o GetRecentFrom(buf, i + 1, sinceMS, IF limit > 0 THEN limit - 1 ELSE limit)
    ELSE GetRecentFrom(buf, i + 1, sinceMS, limit)

GetRecentEvents(sinceMS, limit) == GetRecentFrom(eventBuffer, 1, sinceMS, limit)

\* The debouncer seen from the ring: some flush invokes the callback with
\* an event of some path.
CallbackInvoked(t, k) ==
  /\ inflight = {}
  /\ webhookJobs = {}
  /\ calls[k] <= RingCap
  /\ inflight' = {[event |-> FileEvent(t, k), by |-> "timer"]}
  /\ calls' = [calls EXCEPT ![k] = @ + 1]
  /\ UNCHANGED << wRunning, debPending, debTimer, debFired, debStopped, faPc, faKeys,
                  lastAdd >>
  /\ UNCHANGED << ringVars, dispVars, sseVars, procVars, regVars, now, mainVars >>

Next ==
  \E p \in Procs :
    \/ StartAcquire(p)
    \/ StartLockError(p)
    \/ LeaderSpawn(p)
    \/ LeaderWaitReady(p)
    \/ LeaderWriteOpen(p)
    \/ LeaderWriteData(p)
    \/ LeaderRename(p)
    \/ LeaderConnect(p)
    \/ FollowerRead(p)
    \/ FollowerConnect(p)
    \/ LeaderTickOpen(p)
    \/ LeaderTickData(p)
    \/ LeaderTickRename(p)
    \/ FollowerTick(p)
    \/ StopSignal(p)
    \/ StopLoopExit(p)
    \/ StopRedis(p)
    \/ StopReleaseLock(p)
    \/ MainExit(p)
    \/ Crash(p)
    \/ RedisExit(p)
    \/ MonitorProcess(p)

\* The election, the supervisor and the leader-info file.  No step of the
\* election reads a timestamp, so the clock is left out here: every
\* timestamp is that of one instant.
Spec == Init /\ [][Next]_vars

\* The same with a clock that advances between any two steps.
TimedNext == Next \/ Tick

TimedSpec == Init /\ [][TimedNext]_vars

\* The election together with the registry: everything that is published
\* by write-to-temp-then-rename.
PublishNext == Next \/ RegistryNext

PublishSpec == Init /\ [][PublishNext]_vars

\* The watcher: fsnotify events, the debouncer with its timers, FlushAll,
\* Stop, and the callback that appends to the ring and dispatches.
WatcherNext ==
  \/ WatcherStart
  \/ \E t \in FsEventTypes, k \in Paths : HandleFsEvent(t, k)
  \/ \E k \in Paths : TimerFire(k)
  \/ \E k \in Paths : TimerFlush(k)
  \/ FlushAllStart
  \/ \E k \in Paths : FlushAllStep(k)
  \/ FlushAllReturn
  \/ WatcherStop
  \/ \E c \in inflight : HandleDebouncedEvent(c)
  \/ \E e \in webhookJobs : DispatchToWebhooks(e)
  \/ Tick

WatcherSpec == Init /\ [][WatcherNext]_vars

\* The clock advances, due timers fire and their goroutines get the mutex.
WatcherFairness ==
  /\ WF_vars(Tick)
  /\ \A k \in Paths : WF_vars(TimerFire(k)) /\ WF_vars(TimerFlush(k))

WatcherFairSpec == WatcherSpec /\ WatcherFairness

\* The watcher with the events that reach the debouncer after its Stop.
StoppedNext == WatcherNext \/ \E t \in FsEventTypes, k \in Paths : AddAfterStop(t, k)

StoppedSpec == Init /\ [][StoppedNext]_vars

\* The ring fed by callbacks with any events, one after the other, at one
\* instant.
RingNext ==
  \/ \E t \in FsEventTypes, k \in Paths : CallbackInvoked(t, k)
  \/ \E c \in inflight : HandleDebouncedEvent(c)
  \/ \E e \in webhookJobs : DispatchToWebhooks(e)

RingSpec == Init /\ [][RingNext]_vars

\* The events handed to Dispatch by its callers, stamped with the one
\* instant of the specifications without a clock.
DispatchedEvents ==
  { [type |-> t, path |-> "a", timestamp |-> 0] : t \in {"add", "delete"} }

\* The dispatcher and its webhook subscribers.
DispatchNext ==
  \/ \E u \in URLs, f \in Filters : Subscribe(u, f)
  \/ \E u \in URLs : Unsubscribe(u)
  \/ \E e \in DispatchedEvents : DispatchEvent(e)
  \/ \E e \in webhookJobs : DispatchToWebhooks(e)
  \/ \E d \in deliveries, resp \in {"2xx", "fail"} : DeliverAttempt(d, resp)
  \/ \E d \in deliveries : DeliverSuccess(d)
  \/ \E d \in deliveries : DeliverExhausted(d)

DispatchSpec == Init /\ [][DispatchNext]_vars

\* The dispatcher and its live streams.
SSENext ==
  \/ \E ch \in Chans : SSEConnect(ch)
  \/ \E ch \in Chans : SSEStream(ch)
  \/ \E ch \in Chans : SSEDisconnect(ch)
  \/ \E e \in DispatchedEvents : DispatchEvent(e)
  \/ \E e \in webhookJobs : DispatchToWebhooks(e)
  \/ \E j \in sseJobs : \E ch \in j.todo : SSESend(j, ch)
  \/ \E j \in sseJobs : DispatchToSSEReturn(j)

SSESpec == Init /\ [][SSENext]_vars

\* The goroutine that runs dispatchToSSE for an event keeps running;
\* nothing is assumed about the readers of the streams.
SSEFairness ==
  \A e \in DispatchedEvents :
    WF_vars(\E j \in sseJobs :
              /\ j.event = e
              /\ \/ \E ch \in j.todo : SSESend(j, ch)
                 \/ DispatchToSSEReturn(j))

SSEFairSpec == SSESpec /\ SSEFairness

\* ============================================================ Watcher.RunScan
\* go w.RunScan(): Watcher.Start and handleTriggerScan each start a
\* goroutine that calls RunScan.
ScanTrigger ==
  /\ scan.triggered < MaxScans
  /\ scan' = [scan EXCEPT !.triggered = @ + 1,
                          !.runs = @ \cup {[id |-> scan.triggered + 1, at |-> "called", seen |-> {}]}]
  /\ UNCHANGED << sup, kv, lastCall, mainPc, httpSrv, procVars, now, regVars, watcherVars >>

\* Variant: a call that finds a scan in progress clears the flag.
SkipClearsFlag == FALSE

\* A call that finds a scan in progress returns before the deferred reset
\* is registered: the flag stays as it is.
SkipLeavesFlag == scan.isScanning

\* RunScan under Watcher.mu: return if isScanning, else isScanning = true.
ScanBegin(r) ==
  /\ r \in scan.runs
  /\ r.at = "called"
  /\ scan' = IF scan.isScanning
               THEN [scan EXCEPT !.runs = @ \ {r}, !.skipped = @ + 1,
                                 !.isScanning = SkipLeavesFlag]
               ELSE [scan EXCEPT !.runs = (@ \ {r}) \cup {[r EXCEPT !.at = "scanning"]},
                                 !.isScanning = TRUE]
  /\ UNCHANGED << sup, kv, lastCall, mainPc, httpSrv, procVars, now, regVars, watcherVars >>

\* scanDirectory: the walk reaches a file: the add event is dispatched
\* directly and the file counted.
ScanFile(r, k) ==
  /\ ~panicked
  /\ r \in scan.runs
  /\ r.at = "scanning"
  /\ k \notin r.seen
  /\ FileEvent("add", k) \notin webhookJobs
  /\ Dispatch(FileEvent("add", k))
  /\ scan' = [scan EXCEPT !.runs = (@ \ {r}) \cup {[r EXCEPT !.seen = @ \cup {k}]}]
  /\ UNCHANGED << sup, kv, lastCall, mainPc, httpSrv, procVars, now, regVars, debVars, ringVars >>

\* RunScan: the walk is over: under Watcher.mu, w.fileCount = fileCount.
ScanCount(r) ==
  /\ r \in scan.runs
  /\ r.at = "scanning"
  /\ scan' = [scan EXCEPT !.runs = (@ \ {r}) \cup {[r EXCEPT !.at = "counted"]},
                          !.fileCount = Cardinality(r.seen)]
  /\ UNCHANGED << sup, kv, lastCall, mainPc, httpSrv, procVars, now, regVars, watcherVars >>

\* RunScan returns: the deferred function sets isScanning = false and
\* lastScan = NowMS() under Watcher.mu.
ScanEnd(r) ==
  /\ r \in scan.runs
  /\ r.at = "counted"
  /\ scan' = [scan EXCEPT !.runs = @ \ {r}, !.isScanning = FALSE, !.lastScan = now]
  /\ UNCHANGED << sup, kv, lastCall, mainPc, httpSrv, procVars, now, regVars, watcherVars >>

ScanNext ==
  \/ ScanTrigger
  \/ \E r \in scan.runs : ScanBegin(r)
  \/ \E r \in scan.runs : \E k \in Paths : ScanFile(r, k)
  \/ \E r \in scan.runs : ScanCount(r)
  \/ \E r \in scan.runs : ScanEnd(r)
  \/ \E e \in webhookJobs : DispatchToWebhooks(e)
  \/ Tick

ScanSpec == Init /\ [][ScanNext]_vars

\* ============================================================= RedisManager
\* One RedisManager whose Start and Stop are called by any caller, in any
\* order.  Children are numbered in the order of their spawn; a monitor is
\* the goroutine started by the Start that spawned child id.
\* RedisManager.Start under rm.mu (which a Stop in progress holds): nothing
\* if running; else cmd.Start(), running = true, go monitorProcess().
SupStart(spawnOk) ==
  /\ ~sup.stopping
  /\ sup.spawned < MaxSpawns
  /\ lastCall' = [op |-> "Start", found |-> sup.running, spawnOk |-> spawnOk]
  /\ sup' = IF sup.running \/ ~spawnOk THEN sup
            ELSE LET id == sup.spawned + 1
                 IN  [sup EXCEPT !.running = TRUE, !.cmd = id, !.spawned = id,
                                 !.alive = @ \cup {id},
                                 !.monitors = @ \cup {[id |-> id, at |-> "new", target |-> NoCmd]}]
  /\ UNCHANGED << scan, kv, mainPc, httpSrv, procVars, now, regVars, watcherVars >>

\* monitorProcess begins: it reads rm.cmd, without the mutex, whenever the
\* goroutine gets to run, returns if it is nil and else calls Wait on it.
MonitorRead(m) ==
  /\ m \in sup.monitors
  /\ m.at = "new"
  /\ sup' = [sup EXCEPT !.monitors =
               IF sup.cmd = NoCmd THEN @ \ {m}
               ELSE (@ \ {m}) \cup {[m EXCEPT !.at = "wait", !.target = sup.cmd]}]
  /\ UNCHANGED << scan, kv, lastCall, mainPc, httpSrv, procVars, now, regVars, watcherVars >>

\* monitorProcess ends: Wait has returned because the child it waits on
\* has exited; under rm.mu, running = false.
MonitorDone(m) ==
  /\ m \in sup.monitors
  /\ m.at = "wait"
  /\ m.target \notin sup.alive
  /\ ~sup.stopping
  /\ sup' = [sup EXCEPT !.running = FALSE, !.monitors = @ \ {m}]
  /\ UNCHANGED << scan, kv, lastCall, mainPc, httpSrv, procVars, now, regVars, watcherVars >>

\* A store subprocess exits (on its own, or on the SIGTERM of Stop).
ChildExit(c) ==
  /\ c \in sup.alive
  /\ sup' = [sup EXCEPT !.alive = @ \ {c}]
  /\ UNCHANGED << scan, kv, lastCall, mainPc, httpSrv, procVars, now, regVars, watcherVars >>

\* RedisManager.Stop takes rm.mu: it returns at once if !running or
\* cmd == nil, else sends SIGTERM and waits, holding the mutex.
SupStopBegin ==
  /\ ~sup.stopping
  /\ lastCall' = [op |-> "Stop", found |-> sup.running, spawnOk |-> FALSE]
  /\ sup' = IF ~sup.running \/ sup.cmd = NoCmd THEN sup
            ELSE [sup EXCEPT !.stopping = TRUE]
  /\ UNCHANGED << scan, kv, mainPc, httpSrv, procVars, now, regVars, watcherVars >>

\* Stop: the 10 s have passed with the child alive: Process.Kill().
SupStopKill ==
  /\ sup.stopping
  /\ sup.cmd \in sup.alive
  /\ sup' = [sup EXCEPT !.alive = @ \ {sup.cmd}]
  /\ UNCHANGED << scan, kv, lastCall, mainPc, httpSrv, procVars, now, regVars, watcherVars >>

\* Variant: the Wait of Stop never returns while a monitor waits on the
\* same command.
StopWaitStarved ==
  /\ sup.cmd \notin sup.alive
  /\ \A m \in sup.monitors : ~(m.at = "wait" /\ m.target = sup.cmd)

\* rm.cmd.Wait() in the goroutine of Stop returns once the child has
\* exited, whether or not the monitor waits on it too.
StopWaitReturned == sup.cmd \notin sup.alive

\* Stop: the Wait of its goroutine has returned: running = false,
\* cmd = nil, and the mutex is released.
SupStopReturn ==
  /\ sup.stopping
  /\ StopWaitReturned
  /\ sup' = [sup EXCEPT !.running = FALSE, !.cmd = NoCmd, !.stopping = FALSE]
  /\ lastCall' = [op |-> "StopReturn", found |-> TRUE, spawnOk |-> FALSE]
  /\ UNCHANGED << scan, kv, mainPc, httpSrv, procVars, now, regVars, watcherVars >>

SupNext ==
  \/ \E spawnOk \in BOOLEAN : SupStart(spawnOk)
  \/ \E m \in sup.monitors : MonitorRead(m)
  \/ \E m \in sup.monitors : MonitorDone(m)
  \/ \E c \in sup.alive : ChildExit(c)
  \/ SupStopBegin
  \/ SupStopKill
  \/ SupStopReturn

SupSpec == Init /\ [][SupNext]_vars

\* The timer of Stop fires and the kill takes effect; a Wait returns
\* once the child has exited.
SupFairness == WF_vars(SupStopKill) /\ WF_vars(SupStopReturn)

SupFairSpec == SupSpec /\ SupFairness

\* ------------------------------------------------- Election.Role / LeaderInfo
\* A goroutine of a live process calls Role() and LeaderInfo(), each under
\* the read lock; the two calls are taken here at one instant, with
\* nothing in between.
ReadRoleAndInfo(p) ==
  /\ pc[p] \notin {"failed", "notready", "crashed", "exited"}
  /\ lastCall' = [op |-> "roleinfo", proc |-> p, role |-> role[p], leader |-> leaderInfo[p]]
  /\ lastCall' # lastCall
  /\ UNCHANGED << unitVars, mainPc, httpSrv, procVars, now, regVars, watcherVars >>

\* The election with readers of its role and leader info.
ReaderNext == Next \/ \E p \in Procs : ReadRoleAndInfo(p)

ReaderSpec == Init /\ [][ReaderNext]_vars

\* ====================================================================== main
\* The process whose main() is followed through start-up and shutdown.
Main == 1

\* main: disc.Start() after election.Start() has returned nil.
MainStartDiscovery ==
  /\ mainPc = "init"
  /\ pc[Main] = "running"
  /\ SvcStart

\* main: apiServer.Start() once the registration is written: the listener
\* goroutine is started, then the file watcher.
MainStartServer ==
  /\ mainPc = "init"
  /\ pc[Main] = "running"
  /\ svcPc = "idle"
  /\ mainPc' = "serving"
  /\ httpSrv' = "listening"
  /\ WatcherStartEffect
  /\ UNCHANGED << unitVars, lastCall, ringVars, dispVars, sseVars, procVars, regVars, now >>

\* waitForShutdown has returned; apiServer.Stop() begins with
\* s.fileWatcher.Stop().
MainStopWatcher ==
  /\ mainPc = "serving"
  /\ pc[Main] = "running"
  /\ mainPc' = "watcherStopped"
  /\ WatcherStopEffect
  /\ UNCHANGED << unitVars, httpSrv, lastCall, ringVars, dispVars, sseVars, procVars, regVars, now >>

\* apiServer.Stop() ends with s.server.Shutdown(ctx).
MainShutdownHTTP ==
  /\ mainPc = "watcherStopped"
  /\ pc[Main] = "running"
  /\ mainPc' = "httpStopped"
  /\ httpSrv' = "shutdown"
  /\ UNCHANGED << unitVars, lastCall, watcherVars, procVars, regVars, now >>

\* Variant: the registry is stopped as soon as the shutdown begins.
DiscoveryStopsEarly == mainPc \in {"serving", "watcherStopped", "httpStopped"}

\* main calls disc.Stop() after apiServer.Stop() has returned.
DiscoveryStopTurn == mainPc = "httpStopped"

\* disc.Stop(): the heartbeat loop ends and the service file is removed.
MainStopDiscovery ==
  /\ DiscoveryStopTurn
  /\ pc[Main] = "running"
  /\ svcPc = "idle"
  /\ mainPc' = "discStopped"
  /\ SvcStopEffect
  /\ UNCHANGED << unitVars, httpSrv, lastCall, watcherVars, procVars, now >>

\* main calls election.Stop() after disc.Stop() has returned.
MainStopElection ==
  /\ mainPc = "discStopped"
  /\ StopSignal(Main)

\* The election of every process; of the process Main, everything but the
\* start of Stop(), which main decides.
ElectionStep(p) ==
  \/ StartAcquire(p)
  \/ StartLockError(p)
  \/ LeaderSpawn(p)
  \/ LeaderWaitReady(p)
  \/ LeaderWriteOpen(p)
  \/ LeaderWriteData(p)
  \/ LeaderRename(p)
  \/ LeaderConnect(p)
  \/ FollowerRead(p)
  \/ FollowerConnect(p)
  \/ LeaderTickOpen(p)
  \/ LeaderTickData(p)
  \/ LeaderTickRename(p)
  \/ FollowerTick(p)
  \/ (p # Main /\ StopSignal(p))
  \/ StopLoopExit(p)
  \/ StopRedis(p)
  \/ StopReleaseLock(p)
  \/ MainExit(p)
  \/ Crash(p)
  \/ RedisExit(p)
  \/ MonitorProcess(p)

\* main() of one process from election.Start() to its return, beside the
\* elections of its peers.
ShutdownNext ==
  \/ \E p \in Procs : ElectionStep(p)
  \/ MainStartDiscovery
  \/ SvcRegisterData
  \/ SvcRegisterRename
  \/ MainStartServer
  \/ MainStopWatcher
  \/ MainShutdownHTTP
  \/ MainStopDiscovery
  \/ MainStopElection

ShutdownSpec == Init /\ [][ShutdownNext]_vars

\* The registry of one service with a clock, and peers that discover it.
DiscoverNext ==
  \/ RegistryNext
  \/ Tick
  \/ \E op \in {"Discover", "DiscoverAll"} : DiscoverCall(op)

DiscoverSpec == Init /\ [][DiscoverNext]_vars

\* ------------------------------------------------------- metadata endpoints
\* The mutating endpoints under /meta: whether the route has a {key:.*}
\* part, which may match the empty string, and whether the handler reads a
\* request body.
MutatingEndpoints ==
  { [name |-> "PUT /meta/{hash}", hasKey |-> FALSE, hasBody |-> TRUE],
    [name |-> "PATCH /meta/{hash}", hasKey |-> FALSE, hasBody |-> TRUE],
    [name |-> "DELETE /meta/{hash}", hasKey |-> FALSE, hasBody |-> FALSE],
    [name |-> "PUT /meta/{hash}/{key}", hasKey |-> TRUE, hasBody |-> TRUE],
    [name |-> "DELETE /meta/{hash}/{key}", hasKey |-> TRUE, hasBody |-> FALSE],
    [name |-> "POST /meta/{hash}/_add/{key}", hasKey |-> TRUE, hasBody |-> TRUE] }

\* Variant: the handler looks at the connection before it looks at the key.
KeyMissingNever(ep, key) == FALSE

\* if key == "" { writeError(w, http.StatusBadRequest, "key is required") },
\* which comes before the IsConnected check.
KeyMissing(ep, key) == ep.hasKey /\ key = ""

\* The status a mutating handler of process p answers, and whether it
\* has written to the store: 400 for a missing key, 503 when the client
\* is not connected, 400 for a bad body, 500 when the store call fails,
\* 200 after the write.
HandleMutation(p, ep, key, bodyOk) ==
  IF KeyMissing(ep, key) THEN [status |-> 400, wrote |-> FALSE]
  ELSE IF ~connected[p] THEN [status |-> 503, wrote |-> FALSE]
  ELSE IF ep.hasBody /\ ~bodyOk THEN [status |-> 400, wrote |-> FALSE]
  ELSE IF redisAlive[clientAddr[p]] THEN [status |-> 200, wrote |-> TRUE]
  ELSE [status |-> 500, wrote |-> FALSE]

\* A client sends a mutating request to the HTTP server of process p,
\* which serves once election.Start() has returned.
MutationRequest(p, ep, key, bodyOk) ==
  /\ Up(p)
  /\ pc[p] = "running"
  /\ lastCall' = [op |-> ep.name, proc |-> p, key |-> key, bodyOk |-> bodyOk,
                  connected |-> connected[p],
                  response |-> HandleMutation(p, ep, key, bodyOk)]
  /\ lastCall' # lastCall
  /\ UNCHANGED << unitVars, mainPc, httpSrv, procVars, now, regVars, watcherVars >>

\* The election of every process and the requests to the server of the
\* process Main.
ApiNext ==
  \/ Next
  \/ \E ep \in MutatingEndpoints : \E key \in {"", "k"} :
       \E bodyOk \in BOOLEAN : MutationRequest(Main, ep, key, bodyOk)

ApiSpec == Init /\ [][ApiNext]_vars

\* ------------------------------------------------------- Client.AddToSet
\* Strings are sequences of characters; a set field holds its values joined
\* by "|".
SetValues == {<<"a">>, <<"b">>}

\* strings.Split(s, "|")
RECURSIVE SplitPipe(_)
SplitPipe(s) ==
  IF \A i \in 1..Len(s) : s[i] # "|" THEN << s >>
  ELSE LET i == CHOOSE k \in 1..Len(s) :
                  s[k] = "|" /\ \A j \in 1..(k - 1) : s[j] # "|"
       IN << SubSeq(s, 1, i - 1) >> \o SplitPipe(SubSeq(s, i + 1, Len(s)))

\* strings.Join(values, "|")
RECURSIVE JoinPipe(_)
JoinPipe(values) ==
  IF values = << >> THEN << >>
  ELSE IF Len(values) = 1 THEN values[1]
  ELSE values[1] \o << "|" >> \o JoinPipe(Tail(values))

\* var values []string; if current != "" { values = strings.Split(current, "|") }
ParseValues(current) == IF current = << >> THEN << >> ELSE SplitPipe(current)

Contains(values, value) == \E i \in 1..Len(values) : values[i] = value

\* handleAddToSet of process p with a hash, a key and a non-empty value:
\* 503 when the client is not connected; else Client.AddToSet takes c.mu
\* and reads the field with GET from the store the client points to: an
\* error gives 500, a value already in the list gives added = false with no
\* write, and otherwise the call goes on to its SET.
HandleAddToSet(p, value) ==
  /\ pc[p] = "running"
  /\ kv.op[p] = Nil
  /\ kv.adds < MaxAdds
  /\ LET addr == clientAddr[p]
         current == kv.field[addr]
         answer(status, added) ==
           [kv EXCEPT !.adds = @ + 1,
                      !.result[p] = [status |-> status, value |-> value,
                                     added |-> added, addr |-> addr]]
     IN  IF ~connected[p] THEN kv' = answer(503, FALSE)
         ELSE IF ~redisAlive[addr] THEN kv' = answer(500, FALSE)
         ELSE IF Contains(ParseValues(current), value) THEN kv' = answer(200, FALSE)
         ELSE kv' = [kv EXCEPT !.adds = @ + 1, !.result[p] = Nil,
                               !.op[p] = [value |-> value, current |-> current,
                                          addr |-> addr]]
  /\ UNCHANGED << sup, scan, mainPc, httpSrv, lastCall, procVars, now, regVars, watcherVars >>

\* Client.AddToSet, still under c.mu: values = append(values, value), the
\* SET of the joined list, and the answer of the handler.
AddToSetSave(p) ==
  /\ Up(p)
  /\ kv.op[p] # Nil
  /\ LET op == kv.op[p]
         newValue == JoinPipe(Append(ParseValues(op.current), op.value))
     IN  IF redisAlive[op.addr]
         THEN kv' = [kv EXCEPT !.field[op.addr] = newValue, !.op[p] = Nil,
                               !.result[p] = [status |-> 200, value |-> op.value,
                                              added |-> TRUE, addr |-> op.addr]]
         ELSE kv' = [kv EXCEPT !.op[p] = Nil,
                               !.result[p] = [status |-> 500, value |-> op.value,
                                              added |-> FALSE, addr |-> op.addr]]
  /\ UNCHANGED << sup, scan, mainPc, httpSrv, lastCall, procVars, now, regVars, watcherVars >>

\* The elections of the processes and the add requests to their servers.
SetNext ==
  \/ Next
  \/ \E p \in Procs, value \in SetValues : HandleAddToSet(p, value)
  \/ \E p \in Procs : AddToSetSave(p)

SetSpec == Init /\ [][SetNext]_vars

\* -------------------------------------------------------------- Config paths
\* A path is the sequence of its segments.  META_CORE_PATH is some path
\* of up to MaxDepth directories.
RootPaths ==
  UNION { [1..n -> {"meta-core", "test", "vol"}] : n \in 0..MaxDepth }

\* Variant: the info file directly under the root.
InfoFileInRoot(root) == root \o << "kv-leader.info" >>

\* c.MetaCorePath + "/locks/kv-leader.lock"
LockFilePath(root) == root \o << "locks", "kv-leader.lock" >>

\* c.MetaCorePath + "/locks/kv-leader.info"
InfoFilePath(root) == root \o << "locks", "kv-leader.info" >>

\* c.MetaCorePath + "/db/redis"
RedisDataDir(root) == root \o << "db", "redis" >>

\* c.MetaCorePath + "/services"
ServicesDir(root) == root \o << "services" >>

\* config.Load() with META_CORE_PATH set to root.
LoadConfig(root) ==
  /\ lastCall' = [op |-> "Load", root |-> root]
  /\ lastCall' # lastCall
  /\ UNCHANGED << unitVars, mainPc, httpSrv, procVars, now, regVars, watcherVars >>

\* One of the path methods is called on the loaded Config.
ConfigPathCall(method) ==
  /\ lastCall # Nil
  /\ lastCall' = [op |-> method, root |-> lastCall.root,
                  result |-> CASE method = "LockFilePath" -> LockFilePath(lastCall.root)
                               [] method = "InfoFilePath" -> InfoFilePath(lastCall.root)
                               [] method = "RedisDataDir" -> RedisDataDir(lastCall.root)
                               [] method = "ServicesDir" -> ServicesDir(lastCall.root)]
  /\ lastCall' # lastCall
  /\ UNCHANGED << unitVars, mainPc, httpSrv, procVars, now, regVars, watcherVars >>

ConfigNext ==
  \/ \E root \in RootPaths : LoadConfig(root)
  \/ \E method \in {"LockFilePath", "InfoFilePath", "RedisDataDir", "ServicesDir"} :
       ConfigPathCall(method)

ConfigSpec == Init /\ [][ConfigNext]_vars

\* ------------------------------------------------ leader coordinates as JSON
\* The LeaderLockInfo values that buildLeaderInfo can produce here: two
\* hosts with their store and HTTP URLs, a base URL that is empty or set,
\* the instants of the clock, two pids.
LeaderLockInfos ==
  [Host : {"host-a", "host-b"},
   API : {"redis://10.0.0.1:6379", "redis://10.0.0.2:6379"},
   HTTP : {"http://10.0.0.1:8180"},
   BaseURL : {"", "http://base"},
   Timestamp : 0..MaxTime,
   PID : {12345, 12346}]

\* Variant: the tag without omitempty.
OmitNever(v) == FALSE

\* `json:"baseUrl,omitempty"`: an empty string is left out of the object.
OmitEmpty(v) == v = ""

\* json.MarshalIndent(info): the JSON object, a value for every key that
\* is written.
MarshalLeaderInfo(info) ==
  LET all == [host |-> info.Host, api |-> info.API, http |-> info.HTTP,
              baseUrl |-> info.BaseURL, timestamp |-> info.Timestamp, pid |-> info.PID]
      keys == {"host", "api", "http", "timestamp", "pid"}
                \cup (IF OmitEmpty(info.BaseURL) THEN {} ELSE {"baseUrl"})
  IN  [k \in keys |-> all[k]]

\* json.Unmarshal(data, &info) into a zero LeaderLockInfo: a field whose
\* key is missing keeps its zero value.
UnmarshalLeaderInfo(doc) ==
  LET str(k) == IF k \in DOMAIN doc THEN doc[k] ELSE ""
      num(k) == IF k \in DOMAIN doc THEN doc[k] ELSE 0
  IN  [Host |-> str("host"), API |-> str("api"), HTTP |-> str("http"),
       BaseURL |-> str("baseUrl"), Timestamp |-> num("timestamp"), PID |-> num("pid")]

\* writeLeaderInfo(info) as a whole: marshal, write the temp file, rename.
PublishCoordinates(info) ==
  /\ infoFile' = MarshalLeaderInfo(info)
  /\ tmpFile' = Absent
  /\ lastCall' = [op |-> "writeLeaderInfo", info |-> info]
  /\ UNCHANGED << unitVars, mainPc, httpSrv, pc, electionVars, redisVars, flock, clientAddr, connected,
                  callbackVars, now, regVars, watcherVars >>

\* readLeaderInfo() after a writeLeaderInfo.
ReadCoordinates ==
  /\ lastCall # Nil
  /\ lastCall.op = "writeLeaderInfo"
  /\ infoFile # Absent
  /\ lastCall' = [op |-> "readLeaderInfo", published |-> lastCall.info,
                  result |-> UnmarshalLeaderInfo(infoFile)]
  /\ UNCHANGED << unitVars, mainPc, httpSrv, procVars, now, regVars, watcherVars >>

RoundTripNext ==
  \/ \E info \in LeaderLockInfos : PublishCoordinates(info)
  \/ ReadCoordinates

RoundTripSpec == Init /\ [][RoundTripNext]_vars

\* Scheduling: a goroutine that can take its next step eventually takes it
\* (Start, Stop and the health loop make progress, the ticker keeps firing,
\* the exit monitor runs).  Launching a process, signals, kills and the exit
\* of the store are up to the environment.  Once stopChan is closed the
\* select of the health loop picks it sooner or later even if ticks are
\* ready too (strong fairness).  RestartSucceeds is a health tick whose Redis
\* check spawns the store: the spawn does not keep failing.
RestartSucceeds(p) ==
  /\ LeaderTickOpen(p) \/ LeaderTickData(p) \/ LeaderTickRename(p)
  /\ ~running[p]
  /\ running'[p]

\* The steps of Start() and Stop() on the main goroutine, which follow one
\* another (at most one is enabled at a time).
MainSteps(p) ==
  \/ LeaderSpawn(p) \/ LeaderWaitReady(p)
  \/ LeaderWriteOpen(p) \/ LeaderWriteData(p) \/ LeaderRename(p)
  \/ LeaderConnect(p)
  \/ FollowerRead(p) \/ FollowerConnect(p)
  \/ StopRedis(p) \/ StopReleaseLock(p) \/ MainExit(p)

\* The steps of one tick of healthCheckLoop.
LoopSteps(p) ==
  \/ LeaderTickOpen(p) \/ LeaderTickData(p) \/ LeaderTickRename(p)
  \/ FollowerTick(p)

Fairness ==
  \A p \in Procs :
    /\ WF_vars(MainSteps(p))
    /\ WF_vars(LoopSteps(p))
    /\ SF_vars(StopLoopExit(p))
    /\ WF_vars(MonitorProcess(p))
    /\ SF_vars(RestartSucceeds(p))

FairSpec == Spec /\ Fairness

\* ------------------------------------------------------------------ claims
IsInfo(f) == f \notin {Nil, Absent, Partial}

LockHolders == {p \in Procs : lockFile[p]}
Leaders == {p \in Procs : role[p] = RoleLeader}
Followers == {p \in Procs : role[p] = RoleFollower}

\* C1: in every reachable state at most one process holds the flock on the
\* lock file, and a process is leader (until its Stop() releases the lock)
\* only while it holds it, so at most one process has acquired leadership.
C1_AtMostOneLockHolder ==
  /\ Cardinality(flock) <= 1
  /\ Cardinality(LockHolders) <= 1
  /\ \A p \in Procs :
       (Up(p) /\ role[p] = RoleLeader /\ pc[p] # "released")
          => (lockFile[p] /\ p \in flock)

\* Two processes contended: one holds the lock, a running peer lost.
C1_Witness ==
  \E p, q \in Procs :
    /\ p # q
    /\ lockFile[p] /\ p \in flock
    /\ Up(q) /\ role[q] = RoleFollower

\* C2 as stated: once all N Start() calls have returned, exactly one process
\* has finished as leader and the other N-1 as follower.
StartReturned(p) == LoopAlive(p) \/ pc[p] \in {"failed", "notready"}

C3_StoreOnlyUnderLock ==
  /\ \A p \in Procs :
       (redisAlive[p] /\ pc[p] # "crashed") => (lockFile[p] /\ p \in flock)
  /\ \A p, q \in Procs :
       (p # q /\ pc[p] # "crashed" /\ pc[q] # "crashed")
          => ~(redisAlive[p] /\ redisAlive[q])

\* C4: once the lock holder has exited (stop, failed start or kill) the lock
\* is free, and the tryAcquireLock of a starting process succeeds whenever
\* no running process holds the lock.
C4_LockFreeAfterExit ==
  [][ /\ \A p \in Procs : ~Up(p)' => p \notin flock'
      /\ \A q \in Procs :
           ( /\ pc[q] = "init"
             /\ pc'[q] \in {"acquired", "follow"}
             /\ \A p \in Procs : Up(p) => ~lockFile[p] )
           => (pc'[q] = "acquired" /\ lockFile'[q]) ]_vars

\* A leader that had published was killed and a peer then took the lock.
C4_Witness ==
  \E p, q \in Procs :
    /\ p # q
    /\ pc[p] = "crashed"
    /\ IsInfo(infoFile) /\ infoFile.pid = p
    /\ lockFile[q] /\ role[q] = RoleLeader

PublishedLeaderRuns == IsInfo(infoFile) /\ LoopAlive(infoFile.pid)
PublishedLeaderGone == IsInfo(infoFile) /\ ~Up(infoFile.pid)

\* C6: after the leader has died and its lock is released, a running
\* follower re-elects: eventually some running process is leader.
C6_Failover ==
  \A f \in Procs :
    ( /\ role[f] = RoleFollower /\ LoopAlive(f) /\ ~isShuttingDown[f]
      /\ PublishedLeaderGone /\ flock = {} )
      ~> ( \/ \E q \in Procs : Up(q) /\ role[q] = RoleLeader
           \/ ~LoopAlive(f)
           \/ isShuttingDown[f] )

\* C7: every write to the leader-info file or its temp file is a step of a
\* process that holds the lock before and after the step, and published
\* coordinates carry the pid of that process.
C7_WritesOnlyByLockHolder ==
  [][ (fileVars' # fileVars) =>
        \E p \in Procs :
          /\ pc'[p] # pc[p]
          /\ lockFile[p] /\ p \in flock
          /\ lockFile'[p] /\ p \in flock'
          /\ role[p] = RoleLeader
          /\ (infoFile' # infoFile) => (IsInfo(infoFile') /\ infoFile'.pid = p) ]_vars

\* A leader whose Stop() has begun is in the middle of a republish and
\* still holds the lock.
C7_Witness ==
  \E p \in Procs :
    /\ isShuttingDown[p]
    /\ pc[p] = "hw2"
    /\ lockFile[p]
    /\ IsInfo(infoFile) /\ infoFile.pid = p

\* C9: when the store of a running leader has exited, the exit is observed
\* and a health tick spawns it again (unless the leader is stopped or
\* killed first); the leader keeps its role throughout.
C9_StoreRestarted ==
  /\ \A p \in Procs :
       (role[p] = RoleLeader /\ LoopAlive(p) /\ ~isShuttingDown[p] /\ ~redisAlive[p])
         ~> ( \/ running[p] /\ redisAlive[p] /\ role[p] = RoleLeader
              \/ ~LoopAlive(p)
              \/ isShuttingDown[p] )
  /\ [][ \A p \in Procs :
           (role[p] = RoleLeader /\ LoopAlive(p) /\ LoopAlive(p)')
             => role'[p] = RoleLeader ]_vars

\* A leader whose store was respawned by the health loop and runs again.
C9_Witness ==
  \E p \in Procs :
    /\ role[p] = RoleLeader /\ LoopAlive(p)
    /\ restarted[p] /\ running[p] /\ redisAlive[p]

\* C10: a running follower that has not connected (its first read found no
\* leader-info file) while a running leader's coordinates are published
\* eventually connects its storage client to the published store URL and
\* fires onBecomeFollower with them, unless it or the leader stops first.
C10_FollowerEventuallyConnects ==
  \A f \in Procs :
    ( /\ role[f] = RoleFollower /\ LoopAlive(f) /\ ~isShuttingDown[f]
      /\ clientAddr[f] = NoAddr
      /\ PublishedLeaderRuns )
      ~> ( \/ /\ IsInfo(infoFile)
              /\ clientAddr[f] = infoFile.api
              /\ IsInfo(becameFollower[f])
           \/ ~LoopAlive(f)
           \/ isShuttingDown[f]
           \/ ~PublishedLeaderRuns )

\* C8: a file published by write-to-temp-then-rename, the leader-info file
\* or a service registration file, never holds partially written content:
\* whatever a reader finds there at any moment is complete.
C8_NeverPartial ==
  /\ infoFile # Partial
  /\ svcFile # Partial
  /\ IsInfo(infoFile) => infoFile \in [host : Procs, api : Procs, pid : Procs, timestamp : 0..MaxTime]
  /\ IsInfo(svcFile) => svcFile \in [name : {"svc"}, status : Statuses, lastHeartbeat : 0..MaxTime]

\* Both files are being republished (their temp files are half written)
\* while complete earlier content is in place for readers.
C8_Witness ==
  /\ IsInfo(infoFile) /\ tmpFile = Partial
  /\ IsInfo(svcFile) /\ svcTmp = Partial

\* C11: a follower health tick that reads published coordinates whose store
\* URL differs from the address its storage client uses (or that has no
\* address yet) connects the client to the published URL, so after the tick
\* the client points at it.
C11_FollowerTickReconnects ==
  [][ \A f \in Procs :
        ( /\ role[f] = RoleFollower /\ pc[f] = "running" /\ LoopAlive(f)'
          /\ leaderInfo'[f] # leaderInfo[f]
          /\ IsInfo(infoFile) /\ infoFile.api # clientAddr[f] )
          => clientAddr'[f] = infoFile.api ]_vars

\* The callbacks that a step invokes.
Invoked == inflight' \ inflight

\* C12: a cluster of Adds on one path gets exactly one callback, with the
\* most recent event: (1) every callback carries the event of the most
\* recent Add of its path and is the first since that Add; (2) an Add that
\* comes less than the quiet window after the previous Add of its path
\* finds the entry still pending and no callback made in between; (3) a
\* pending entry is eventually flushed to the callback, unless the
\* debouncer is stopped.
C12_OneCallbackPerCluster ==
  /\ [][ \A c \in Invoked :
           /\ lastAdd[c.event.path] # Nil
           /\ c.event = lastAdd[c.event.path].event
           /\ calls[c.event.path] = 0
           /\ calls'[c.event.path] = 1 ]_vars
  /\ [][ \A k \in Paths :
           ( /\ lastAdd[k] # Nil
             /\ lastAdd'[k] # lastAdd[k]
             /\ lastAdd'[k].at - lastAdd[k].at < Delay )
             => (calls[k] = 0 /\ debPending[k] # Nil) ]_vars
  /\ \A k \in Paths :
       (debPending[k] # Nil)
         ~> ((debPending[k] = Nil /\ calls[k] = 1) \/ debStopped)

\* A cluster of several Adds, the last of them after the clock has moved,
\* has been flushed to the callback, which holds the last event.
C12_Witness ==
  \E k \in Paths : \E c \in inflight :
    /\ c.event.path = k
    /\ c.event.timestamp > 0
    /\ lastAdd[k].merged
    /\ c.event = lastAdd[k].event
    /\ calls[k] = 1
    /\ debPending[k] = Nil

\* C13: the callback of a path is invoked only when at least the quiet
\* window has passed since the most recent Add of that path, and the Add
\* that opens the next entry of the path comes at least the quiet window
\* after the Add whose event was emitted.
C13_QuietWindowRespected ==
  /\ [][ \A c \in Invoked :
           /\ lastAdd[c.event.path] # Nil
           /\ now - lastAdd[c.event.path].at >= Delay ]_vars
  /\ [][ \A k \in Paths :
           (debPending[k] = Nil /\ debPending'[k] # Nil /\ lastAdd[k] # Nil)
             => (lastAdd'[k].at - lastAdd[k].at >= Delay) ]_vars

\* An event of a path has been emitted and appended to the ring, and a
\* later Add of the same path is pending.
C13_Witness ==
  \E k \in Paths :
    /\ debPending[k] # Nil
    /\ debPending[k].lastSeen >= Delay
    /\ \E i \in 1..Len(eventBuffer) : eventBuffer[i].path = k

\* C14: each flush of FlushAll on an entry that is pending invokes the
\* callback with that entry's event at once and removes the entry.
C14_FlushAllFlushesAll ==
  [][ \A k \in Paths :
        ( /\ faPc = "run" /\ k \in faKeys /\ faKeys' = faKeys \ {k}
          /\ debPending[k] # Nil )
          => /\ debPending'[k] = Nil
             /\ \E c \in Invoked : c.event = debPending[k].event ]_vars

\* The delivery d ends with this step.
Finishes(d) ==
  /\ d \in deliveries
  /\ \A d2 \in deliveries' : ~(d2.url = d.url /\ d2.event = d.event)

\* What holds of the webhook deliveries whatever the URL: a delivery
\* goroutine is started for every subscriber whose filter accepts the
\* event, it never makes more than MaxRetries POST attempts, and a 2xx
\* response is followed by no further attempt.
DeliveryBounded ==
  /\ [][ \A e \in webhookJobs \ webhookJobs' :
           \A u \in DOMAIN subscribers :
             Accepts(subscribers[u], e) => \E d \in deliveries' : d.url = u /\ d.event = e ]_vars
  /\ [][ \A d \in deliveries' : d.posts <= MaxRetries ]_vars
  /\ [][ \A d \in deliveries :
           d.status = "ok" =>
             \A d2 \in deliveries' : (d2.url = d.url /\ d2.event = d.event) => d2 = d ]_vars

\* C15 as stated: moreover every delivery has made at least one POST
\* attempt when it ends.
C15_AttemptsOriginal ==
  /\ DeliveryBounded
  /\ [][ \A d \in deliveries : Finishes(d) => d.posts >= 1 ]_vars

\* C15 amended: every delivery to a URL from which a request can be built
\* has made at least one POST attempt when it ends.
C15_Attempts ==
  /\ DeliveryBounded
  /\ [][ \A d \in deliveries : (Finishes(d) /\ ValidURL(d.url)) => d.posts >= 1 ]_vars

\* A delivery has failed MaxRetries times and another got a 2xx at its
\* second attempt.
C15_Witness ==
  /\ \E d \in deliveries : d.attempt = MaxRetries /\ d.posts = MaxRetries
  /\ \E d \in deliveries : d.status = "ok" /\ d.posts = 2

\* C16: a successful delivery resets failCount to 0, an exhausted one adds
\* one to it and removes the subscriber when MaxFailCount is reached; no
\* listed subscriber has a failCount of MaxFailCount or more.
C16_FailCountBelowMax ==
  /\ [][ \A s \in ListSubscribers' : s.failCount >= 0 /\ s.failCount < MaxFailCount ]_vars
  /\ [][ \A d \in deliveries :
           (Finishes(d) /\ d.url \in DOMAIN subscribers) =>
             IF d.status = "ok"
               THEN d.url \in DOMAIN subscribers' /\ subscribers'[d.url].failCount = 0
               ELSE IF subscribers[d.url].failCount + 1 = MaxFailCount
                 THEN d.url \notin DOMAIN subscribers'
                 ELSE /\ d.url \in DOMAIN subscribers'
                      /\ subscribers'[d.url].failCount = subscribers[d.url].failCount + 1 ]_vars

\* Two deliveries to a subscriber one failure short of removal have both
\* exhausted their retries.
C16_Witness ==
  \E u \in DOMAIN subscribers :
    /\ subscribers[u].failCount = MaxFailCount - 1
    /\ \E d1, d2 \in deliveries :
         /\ d1 # d2
         /\ d1.url = u /\ d2.url = u
         /\ d1.status = "try" /\ d2.status = "try"
         /\ d1.attempt = MaxRetries /\ d2.attempt = MaxRetries

\* C18: after a Subscribe the list holds exactly one entry for its URL,
\* with the filter of that call, whether or not the URL was subscribed
\* before.
C18_SubscribeReplaces ==
  (lastSub # Nil) =>
     /\ Cardinality({e \in ListSubscribers : e.url = lastSub.url}) = 1
     /\ \A e \in ListSubscribers : e.url = lastSub.url => e.eventTypes = lastSub.eventTypes

\* The last Subscribe met an entry with another filter.
C18_Witness ==
  /\ lastSub # Nil
  /\ \E f \in lastSub.replaced : f # lastSub.eventTypes

\* The channels of a job that the send loop has gone through.
Sent(j) == j.clients \ j.todo

\* C17: dispatchToSSE never waits for a reader: whatever the readers do,
\* it gets through its channels and returns (unless a send panics); each
\* send appends the event when the channel has room and leaves the channel
\* as it is when it is full, touching no other channel; and every call of
\* Dispatch hands the event to the webhook side and covers every attached
\* channel.
C17_DispatchNeverBlocks ==
  /\ \A e \in DispatchedEvents :
       (\E j \in sseJobs : j.event = e) ~> ((\A j \in sseJobs : j.event # e) \/ panicked)
  /\ [][ \A j \in sseJobs : \A j2 \in sseJobs' :
           (j2.event = j.event /\ j2.todo # j.todo) =>
             \E ch \in j.todo :
               /\ j2.todo = j.todo \ {ch}
               /\ chanBuf'[ch] = IF Len(chanBuf[ch]) < SSECap
                                   THEN Append(chanBuf[ch], j.event)
                                   ELSE chanBuf[ch]
               /\ \A c2 \in Chans \ {ch} : chanBuf'[c2] = chanBuf[c2] ]_vars
  /\ [][ \A j \in sseJobs' \ sseJobs :
           (\A j0 \in sseJobs : j0.event # j.event) =>
             /\ j.event \in webhookJobs'
             /\ j.clients = sseClients
             /\ j.todo = sseClients ]_vars

\* A call of Dispatch has dropped the event on a full channel and queued
\* it on another channel, and the webhook side holds the event.
C17_Witness ==
  \E j \in sseJobs :
    /\ j.dropped # {}
    /\ \E ch \in Sent(j) \ j.dropped :
         \E i \in 1..Len(chanBuf[ch]) : chanBuf[ch][i] = j.event
    /\ j.event \in webhookJobs

\* C19: the ring never holds more than RingCap events; an append that
\* would pass RingCap leaves exactly the newest RingKeep events, the new
\* one last, in their order, and any other append adds the event at the end.
C19_RingBounded ==
  /\ [][ Len(eventBuffer') <= RingCap ]_vars
  /\ [][ \A c \in inflight \ inflight' :
           LET all == eventBuffer \o << c.event >>
           IN  IF Len(all) > RingCap
                 THEN /\ Len(eventBuffer') = RingKeep
                      /\ \A i \in 1..RingKeep :
                           eventBuffer'[i] = all[Len(all) - RingKeep + i]
                 ELSE eventBuffer' = all ]_vars

\* The ring has been truncated: more events were appended than it holds.
C19_Witness ==
  /\ calls["a"] + calls["b"] > RingCap
  /\ inflight = {}
  /\ Len(eventBuffer) = RingKeep
  /\ \E i, j \in 1..Len(eventBuffer) : eventBuffer[i] # eventBuffer[j]

\* C20: GetRecentEvents(sinceMs, limit) returns only events with a
\* timestamp greater than sinceMs, at most limit of them when limit > 0,
\* in non-decreasing timestamp order.
C20_ReadsMonotonic ==
  \A since \in 0..MaxTime : \A limit \in 0..RingCap :
    LET r == GetRecentEvents(since, limit)
    IN  /\ \A i \in 1..Len(r) : r[i].timestamp > since
        /\ (limit > 0) => Len(r) <= limit
        /\ \A i, j \in 1..Len(r) : (i < j) => r[i].timestamp <= r[j].timestamp

WatcherStops == ~debStopped /\ debStopped'
HTTPShutsDown == httpSrv # "shutdown" /\ httpSrv' = "shutdown"
RegistryStops == mainPc # "discStopped" /\ mainPc' = "discStopped" /\ svcFile' = Absent
ElectionStopBegins == ~isShuttingDown[Main] /\ isShuttingDown'[Main]
SupervisorStopped == pc[Main] # "redisstopped" /\ pc'[Main] = "redisstopped"
LockReleased == pc[Main] # "released" /\ pc'[Main] = "released"
StorageClosed == pc[Main] # "exited" /\ pc'[Main] = "exited"

\* What the shutdown does after the HTTP server and the watcher: the
\* registry is stopped once the HTTP server is shut down and the watcher
\* stopped, the election's Stop begins once the registration is removed,
\* the supervisor is stopped before the lock is released, and the storage
\* client is closed last.
ShutdownTail ==
  /\ [][ RegistryStops => (httpSrv = "shutdown" /\ debStopped /\ ~isShuttingDown[Main]) ]_vars
  /\ [][ ElectionStopBegins => (mainPc = "discStopped" /\ svcFile = Absent) ]_vars
  /\ [][ SupervisorStopped => (isShuttingDown[Main] /\ pc[Main] = "loopdone") ]_vars
  /\ [][ LockReleased => (pc[Main] = "redisstopped" /\ ~running[Main]) ]_vars
  /\ [][ StorageClosed => (pc[Main] = "released" /\ ~lockFile[Main] /\ clientAddr'[Main] = NoAddr) ]_vars

\* C22 as stated: the HTTP server is shut down while the watcher still
\* runs, the watcher is stopped after it, and then come the registry, the
\* election (supervisor, then lock) and the storage client.
C22_ShutdownOrderOriginal ==
  /\ [][ HTTPShutsDown => ~debStopped ]_vars
  /\ [][ WatcherStops => httpSrv = "shutdown" ]_vars
  /\ ShutdownTail

\* C22 amended: the watcher is stopped first, while the HTTP server still
\* listens; the HTTP server is shut down after it; then come the registry,
\* the election (supervisor, then lock) and the storage client.
C22_ShutdownOrder ==
  /\ [][ WatcherStops => (httpSrv = "listening" /\ svcFile # Absent) ]_vars
  /\ [][ HTTPShutsDown => (debStopped /\ svcFile # Absent /\ ~isShuttingDown[Main]) ]_vars
  /\ ShutdownTail

\* The process Main has gone through its whole shutdown and has exited.
C22_Witness ==
  /\ pc[Main] = "exited"
  /\ mainPc = "discStopped"
  /\ httpSrv = "shutdown"
  /\ debStopped
  /\ svcFile = Absent
  /\ ~redisAlive[Main]
  /\ Main \notin flock

\* C23: Discover returns the stored registration with status 'stale'
\* exactly when the stored heartbeat is older than StaleThreshold at the
\* instant of the read, and the stored registration unchanged otherwise;
\* DiscoverAll lists the same; a read changes no registration file, and a
\* registration file disappears only when its service stops.
C23_StaleOnReadOnly ==
  /\ [][ (lastCall' # lastCall /\ IsInfo(lastCall'.read)) =>
           LET c == lastCall'
               age == c.at - c.read.lastHeartbeat * TicksPerSecond
               expected == [name |-> c.read.name,
                            status |-> IF age > StaleThreshold THEN "stale" ELSE c.read.status,
                            lastHeartbeat |-> c.read.lastHeartbeat]
           IN  /\ c.read = svcFile
               /\ c.at = now
               /\ c.result = IF c.op = "Discover" THEN expected ELSE << expected >> ]_vars
  /\ [][ (lastCall' # lastCall) => (svcFile' = svcFile /\ svcTmp' = svcTmp) ]_vars
  /\ [][ (svcFile # Absent /\ svcFile' = Absent) => (svcPc = "idle" /\ svcPc' = "off") ]_vars

\* A registration whose heartbeat is older than the threshold has been
\* discovered as stale, and it is still in its file.
C23_Witness ==
  /\ lastCall # Nil
  /\ lastCall.op = "Discover"
  /\ IsInfo(lastCall.result)
  /\ lastCall.result.status = "stale"
  /\ IsInfo(svcFile)
  /\ svcFile.status # "stale"
  /\ svcFile = lastCall.read

\* C24: coordinates that are published and then read back come back the
\* same in every field; an empty baseUrl is left out of the written file
\* and read back as empty, and a set one is written.
C24_PublishReadRoundTrip ==
  /\ [][ (lastCall' # lastCall /\ lastCall'.op = "readLeaderInfo") =>
           LET c == lastCall'.published
               r == lastCall'.result
           IN  /\ r.Host = c.Host /\ r.API = c.API /\ r.HTTP = c.HTTP
               /\ r.BaseURL = c.BaseURL /\ r.Timestamp = c.Timestamp /\ r.PID = c.PID ]_vars
  /\ [][ (lastCall' # lastCall /\ lastCall'.op = "writeLeaderInfo") =>
           /\ ("baseUrl" \in DOMAIN infoFile') <=> (lastCall'.info.BaseURL # "")
           /\ {"host", "api", "http", "timestamp", "pid"} \subseteq DOMAIN infoFile' ]_vars

\* Coordinates with an empty baseUrl and a timestamp after the start have
\* been read back from a file without the key.
C24_Witness ==
  /\ lastCall # Nil
  /\ lastCall.op = "readLeaderInfo"
  /\ lastCall.published.BaseURL = ""
  /\ lastCall.published.Timestamp > 0
  /\ lastCall.result = lastCall.published
  /\ "baseUrl" \notin DOMAIN infoFile

\* A request to a mutating metadata endpoint has just been answered.
Answered == lastCall' # lastCall /\ lastCall'.op \in {ep.name : ep \in MutatingEndpoints}

\* The routes with a {key:.*} part.
KeyedRoutes ==
  {"PUT /meta/{hash}/{key}", "DELETE /meta/{hash}/{key}", "POST /meta/{hash}/_add/{key}"}

\* C25 as stated: a mutating request that finds the storage client not
\* connected is answered 503 and writes nothing to the store.
C25_Disconnected503Original ==
  [][ (Answered /\ ~connected[lastCall'.proc]) =>
        (lastCall'.response.status = 503 /\ ~lastCall'.response.wrote) ]_vars

\* C25 amended: a mutating request that finds the storage client not
\* connected writes nothing to the store and is answered 503, or 400 when
\* the route's key part is empty, which the handler checks first.
C25_Disconnected503 ==
  [][ (Answered /\ ~connected[lastCall'.proc]) =>
        /\ ~lastCall'.response.wrote
        /\ lastCall'.response.status = IF lastCall'.key = "" /\ lastCall'.op \in KeyedRoutes
                                         THEN 400 ELSE 503
        /\ UNCHANGED << procVars, regVars, watcherVars >> ]_vars

\* A follower whose client never connected has answered 503 to a request
\* with a key and a well-formed body.
C25_Witness ==
  /\ lastCall # Nil
  /\ lastCall.op = "PUT /meta/{hash}/{key}"
  /\ lastCall.key = "k"
  /\ lastCall.bodyOk
  /\ ~lastCall.connected
  /\ lastCall.response.status = 503
  /\ role[lastCall.proc] = RoleFollower

\* filepath.Dir of a path with at least one segment.
Dir(path) == SubSeq(path, 1, Len(path) - 1)

\* C26: for every root the lock file is <root>/locks/kv-leader.lock, the
\* leader-info file is <root>/locks/kv-leader.info, in the directory of
\* the lock file, the store data directory is <root>/db/redis and the
\* services directory is <root>/services.
C26_ConfigPaths ==
  (lastCall # Nil /\ lastCall.op # "Load") =>
    LET root == lastCall.root
        n == Len(root)
        r == lastCall.result
    IN  /\ \A i \in 1..n : r[i] = root[i]
        /\ lastCall.op = "LockFilePath" =>
             (Len(r) = n + 2 /\ r[n + 1] = "locks" /\ r[n + 2] = "kv-leader.lock"
              /\ Dir(r) = Dir(InfoFilePath(root)))
        /\ lastCall.op = "InfoFilePath" =>
             (Len(r) = n + 2 /\ r[n + 1] = "locks" /\ r[n + 2] = "kv-leader.info"
              /\ Dir(r) = Dir(LockFilePath(root)))
        /\ lastCall.op = "RedisDataDir" =>
             (Len(r) = n + 2 /\ r[n + 1] = "db" /\ r[n + 2] = "redis")
        /\ lastCall.op = "ServicesDir" =>
             (Len(r) = n + 1 /\ r[n + 1] = "services")

\* The info path of a root two directories deep has been computed.
C26_Witness ==
  /\ lastCall # Nil
  /\ lastCall.op = "InfoFilePath"
  /\ lastCall.root = << "vol", "meta-core" >>
  /\ lastCall.result = << "vol", "meta-core", "locks", "kv-leader.info" >>

\* p moves to position at in this step.
Reaches(p, at) == pc[p] # at /\ pc'[p] = at

\* onBecomeLeader of p is called in this step.
FiresBecomeLeader(p) == ~becameLeader[p] /\ becameLeader'[p]

\* The steps of becoming leader up to the callback, each only after the
\* one before it.
BecomeLeaderOrder(p) ==
  /\ Reaches(p, "acquired") => (pc[p] = "init" /\ p \in flock' /\ lockFile'[p])
  /\ Reaches(p, "spawned") => (pc[p] = "acquired" /\ lockFile[p] /\ running'[p])
  /\ Reaches(p, "ready") => (pc[p] = "spawned" /\ redisAlive[p])
  /\ Reaches(p, "lw1") => pc[p] = "ready"
  /\ Reaches(p, "lw2") => pc[p] = "lw1"
  /\ Reaches(p, "published") => (pc[p] = "lw2" /\ infoFile' = leaderInfo[p])
  /\ FiresBecomeLeader(p) =>
       (pc[p] = "published" /\ clientAddr'[p] = leaderInfo[p].api
        /\ leaderInfo[p].api = p)

\* C27 as stated: becoming leader goes lock, supervisor started and ready,
\* coordinates published, storage client connected to the local store,
\* and only then onBecomeLeader.
C27_BecomeLeaderOrderOriginal ==
  [][\A p \in Procs :
       /\ BecomeLeaderOrder(p)
       /\ FiresBecomeLeader(p) => connected'[p]]_vars

\* C27: becoming leader goes lock, supervisor started and ready,
\* coordinates published, Connect of the storage client to the local store
\* called (a failure is only logged), and only then onBecomeLeader; the
\* callback never fires before the info file has been published.
C27_BecomeLeaderOrder ==
  [][\A p \in Procs : BecomeLeaderOrder(p)]_vars

\* A leader whose callback has fired with the client connected to its
\* own store.
C27_Witness ==
  \E p \in Procs :
    /\ becameLeader[p]
    /\ pc[p] = "running"
    /\ role[p] = RoleLeader
    /\ clientAddr[p] = p
    /\ connected[p]

\* What the Election and the supervisor of p hold in memory.
ElectionState(p) ==
  << role[p], lockFile[p], leaderInfo[p], isShuttingDown[p], running[p],
     clientAddr[p], becameLeader[p], becameFollower[p] >>

\* C28: when readiness is not observed within the timeout on
\* become-leader, Start returns an error and the process exits: no leader
\* info is published, no health loop runs afterwards, the lock is
\* released, and the next acquisition of a peer succeeds.
C28_ReadinessTimeout ==
  [][\A p \in Procs :
       /\ Reaches(p, "notready") =>
            /\ pc[p] = "spawned"
            /\ UNCHANGED fileVars
            /\ p \notin flock'
            /\ ~lockFile'[p]
       /\ pc[p] = "notready" =>
            /\ pc'[p] = "notready"
            /\ ~LoopAlive(p)'
            /\ ElectionState(p)' = ElectionState(p)
            /\ p \notin flock'
       /\ \A q \in Procs \ {p} :
            (/\ pc[p] = "notready"
             /\ pc[q] = "init"
             /\ pc'[q] \in {"acquired", "follow"}
             /\ \A r \in Procs \ {p, q} : r \notin flock)
              => (pc'[q] = "acquired" /\ q \in flock')]_vars

\* Start of p has failed on the readiness timeout with its store child
\* still alive, and a peer has acquired the lock since.
C28_Witness ==
  \E p \in Procs, q \in Procs :
    /\ pc[p] = "notready"
    /\ redisAlive[p]
    /\ pc[q] = "acquired"
    /\ flock = {q}

\* C29: in every interleaving of Dispatch with the detaching of a live
\* stream, which closes the channel, Dispatch never sends on a channel
\* that has been closed (a send on a closed channel panics).
C29_NoSendOnClosed == ~panicked

\* Positions of Stop past wg.Wait().
StopPositions == {"loopdone", "redisstopped", "released"}

\* Positions at which a process writes the info file or its temp file.
WritePositions == {"ready", "lw1", "lw2", "running", "hw1", "hw2"}

\* C30: Stop goes in order: the health loop has returned, then the
\* supervisor of a leader is stopped, and only then the lock is released;
\* once Stop is past the wait for the loop, no tick republishes the
\* coordinates or starts a store.
C30_StopOrder ==
  [][\A p \in Procs :
       /\ Reaches(p, "loopdone") => (pc[p] = "running" /\ isShuttingDown[p])
       /\ Reaches(p, "redisstopped") =>
            /\ pc[p] = "loopdone"
            /\ role[p] = RoleLeader => (~running'[p] /\ (running[p] => ~redisAlive'[p]))
            /\ lockFile'[p] = lockFile[p]
            /\ (p \in flock') = (p \in flock)
       /\ Reaches(p, "released") =>
            (pc[p] = "redisstopped" /\ ~lockFile'[p] /\ p \notin flock')
       /\ (Up(p) /\ Up(p)' /\ p \in flock /\ p \notin flock') => Reaches(p, "released")
       /\ pc[p] \in StopPositions =>
            /\ pc'[p] \in StopPositions \cup {"crashed", "exited"}
            /\ running'[p] => running[p]
            /\ redisAlive'[p] => redisAlive[p]
            /\ restarted'[p] => restarted[p]
            /\ Up(p)' => leaderInfo'[p] = leaderInfo[p]
            /\ (\A q \in Procs \ {p} : pc[q] \notin WritePositions)
                 => UNCHANGED fileVars]_vars

\* A leader has gone through Stop: its store is down, its lock released,
\* and the coordinates it published last are still in the info file.
C30_Witness ==
  \E p \in Procs :
    /\ pc[p] = "released"
    /\ role[p] = RoleLeader
    /\ leaderInfo[p] # Nil
    /\ infoFile = leaderInfo[p]
    /\ ~running[p]
    /\ ~redisAlive[p]
    /\ p \notin flock

\* onBecomeFollower of p is called in this step.
FiresBecomeFollower(p) == becameFollower[p] = Nil /\ becameFollower'[p] # Nil

\* C31: reads of the role and of the leader info are linearizable with the
\* transitions: no reader sees the role of a transition without its leader
\* info (the role leader with no leader info, or with that of another
\* process), and when a callback runs the role and the leader info are
\* those of the transition that fires it.
C31_ReadsLinearizable ==
  /\ [](lastCall # Nil /\ lastCall.op = "roleinfo" /\ lastCall.role = RoleLeader
          => lastCall.leader # Nil /\ lastCall.leader.host = lastCall.proc)
  /\ [][\A p \in Procs :
          /\ FiresBecomeLeader(p) =>
               (role'[p] = RoleLeader /\ leaderInfo'[p] # Nil /\ leaderInfo'[p].host = p)
          /\ FiresBecomeFollower(p) =>
               (role'[p] = RoleFollower /\ leaderInfo'[p] = becameFollower'[p])]_vars

\* C32: IsRunning() is true exactly when the most recently spawned child
\* has not been observed to exit: in no interleaving of Start, Stop, child
\* exits and monitors does the monitor of an earlier spawn clear the flag
\* while the latest spawn is still alive, so that a Start would spawn a
\* second child beside it.
C32_RunningMeansLastSpawn ==
  /\ (sup.cmd # NoCmd /\ sup.cmd \in sup.alive) => sup.running
  /\ Cardinality(sup.alive) <= 1

\* The info file is replaced in this step by coordinates of the leader
\* session whose coordinates it held.
Republished ==
  /\ infoFile' # infoFile
  /\ IsInfo(infoFile)
  /\ IsInfo(infoFile')
  /\ infoFile'.pid = infoFile.pid

\* C33: during a leader session the timestamp of the published
\* coordinates never decreases from one publication to the next, and a
\* health tick republishes them with the timestamp taken in that tick and
\* with the same host, store URL and pid.
C33_TimestampMonotonic ==
  [][/\ Republished =>
          /\ infoFile'.timestamp >= infoFile.timestamp
          /\ infoFile'.host = infoFile.host
          /\ infoFile'.api = infoFile.api
      /\ \A p \in Procs :
           (pc[p] = "hw2" /\ pc'[p] = "running" /\ infoFile' # infoFile) =>
              /\ infoFile' = leaderInfo[p]
              /\ infoFile'.pid = p /\ infoFile'.host = p /\ infoFile'.api = p
              /\ infoFile'.timestamp <= now]_vars

\* A follower read the coordinates of a leader when it started, and a tick
\* of that leader has since republished them with a later timestamp.
C33_Witness ==
  \E p \in Procs, q \in Procs :
    /\ pc[p] = "running"
    /\ role[p] = RoleLeader
    /\ becameFollower[q] # Nil
    /\ becameFollower[q].pid = p
    /\ IsInfo(infoFile)
    /\ infoFile.pid = p
    /\ infoFile.timestamp > becameFollower[q].timestamp
    /\ infoFile.host = becameFollower[q].host
    /\ infoFile.api = becameFollower[q].api

\* C34: Stop of the supervisor always returns: after the graceful signal
\* the child exits or is killed, and the monitor cannot hold Stop up; when
\* it returns the child has exited and IsRunning() is false; a Stop when
\* nothing is running changes nothing.
C34_StopReturns ==
  /\ sup.stopping ~> ~sup.stopping
  /\ [][/\ (~sup.stopping /\ sup'.stopping) =>
            (sup.running /\ sup.cmd # NoCmd /\ sup' = [sup EXCEPT !.stopping = TRUE])
        /\ (sup.stopping /\ ~sup'.stopping) =>
            (~sup'.running /\ sup.cmd \notin sup'.alive /\ sup'.cmd = NoCmd)
        /\ (lastCall' # lastCall /\ lastCall'.op = "Stop" /\ ~lastCall'.found) =>
            sup' = sup]_vars

\* A Stop has returned while the monitor of the child it stopped has not
\* yet taken the mutex.
C34_Witness ==
  /\ lastCall # Nil
  /\ lastCall.op = "StopReturn"
  /\ ~sup.running
  /\ sup.cmd = NoCmd
  /\ sup.alive = {}
  /\ \E m \in sup.monitors : m.at = "wait"

\* C35: the events of one path reach the ring and the dispatcher in the
\* order in which their quiet windows ended: an event of a later cluster
\* of a path (which carries a later timestamp) is never appended before
\* the event of an earlier cluster of that path.
C35_PerPathOrder ==
  \A i, j \in 1..Len(eventBuffer) :
    (i < j /\ eventBuffer[i].path = eventBuffer[j].path)
      => eventBuffer[i].timestamp <= eventBuffer[j].timestamp

\* C36: Stop of the debouncer disarms every timer and empties the pending
\* map; afterwards no callback is invoked any more, so no event that was
\* pending at Stop reaches the callback, and an Add creates no entry and
\* arms no timer.
C36_StopDiscards ==
  /\ [](debStopped =>
          \A k \in Paths : debPending[k] = Nil /\ debTimer[k] = TimerOff)
  /\ [][debStopped => inflight' \subseteq inflight]_vars
  /\ [][(lastCall' # lastCall /\ lastCall'.op = "Add") =>
          /\ debStopped
          /\ UNCHANGED << debPending, debTimer, lastAdd, calls, inflight >>]_vars

\* The debouncer was stopped with an event pending whose callback was never
\* invoked, the goroutine of a timer that had fired has still to run, and
\* an Add has come after the Stop.
C36_Witness ==
  /\ debStopped
  /\ lastCall # Nil
  /\ lastCall.op = "Add"
  /\ \E k \in Paths :
       /\ lastAdd[k] # Nil
       /\ calls[k] = 0
       /\ debFired[k]
       /\ debPending[k] = Nil

\* The RunScan goroutines that are scanning.
Scanning == {r \in scan.runs : r.at \in {"scanning", "counted"}}

\* C37: at most one scan runs at a time; a RunScan that finds a scan in
\* progress returns without scanning and leaves the flag set; when a scan
\* completes the flag is false, fileCount is the number of files it found
\* and lastScan the instant of its end.
C37_OneScanAtATime ==
  /\ [](Cardinality(Scanning) <= 1 /\ (scan.isScanning <=> Scanning # {}))
  /\ [][scan'.skipped # scan.skipped =>
          /\ scan.isScanning /\ scan'.isScanning
          /\ Scanning' = Scanning
          /\ scan'.fileCount = scan.fileCount /\ scan'.lastScan = scan.lastScan
          /\ UNCHANGED << webhookJobs, sseJobs >>]_vars
  /\ [][\A r \in Scanning : r \notin scan'.runs /\ r.at = "counted" =>
          /\ ~scan'.isScanning
          /\ scan'.fileCount = Cardinality(r.seen)
          /\ scan'.lastScan = now]_vars

\* A scan that found two files has completed after time had passed, and a
\* trigger that came while a scan was in progress was skipped.
C37_Witness ==
  /\ ~scan.isScanning
  /\ scan.fileCount = 2
  /\ scan.lastScan > 0
  /\ scan.skipped > 0

FirstDelivery(url, event) ==
  [url |-> url, event |-> event, attempt |-> 0, posts |-> 0, status |-> "try"]

\* C39: when dispatchToWebhooks handles an event, a subscriber with an empty
\* filter is sent it whatever its type, a subscriber with a non-empty filter
\* is sent it when its type is in the filter, and is sent nothing otherwise.
C39_FilterRespected ==
  [][ \A e \in webhookJobs \ webhookJobs' :
        \A u \in DOMAIN subscribers :
          /\ subscribers[u].eventTypes = {} =>
                FirstDelivery(u, e) \in deliveries'
          /\ (subscribers[u].eventTypes # {} /\ e.type \in subscribers[u].eventTypes) =>
                FirstDelivery(u, e) \in deliveries'
          /\ (subscribers[u].eventTypes # {} /\ e.type \notin subscribers[u].eventTypes) =>
                \A d \in deliveries' \ deliveries : d.url # u
    ]_vars

\* A delete event has been handed to the subscriber without filter and not
\* to the subscriber that asked for add events only.
C39_Witness ==
  \E u, v \in DOMAIN subscribers :
    /\ subscribers[u].eventTypes = {"add"}
    /\ subscribers[v].eventTypes = {}
    /\ webhookJobs = {}
    /\ \E d \in deliveries : d.url = v /\ d.event.type = "delete"
    /\ \A d \in deliveries : d.url = u => d.event.type = "add"
    /\ \E d \in deliveries : d.url = u

\* C40: AddToSet loses no value: when two processes have added distinct
\* values to the field of the same store and both were answered added = true,
\* the field holds both values, and no value twice.
C40_NoLostValue ==
  \A p, q \in Procs :
    ( /\ p # q
      /\ kv.result[p] # Nil /\ kv.result[q] # Nil
      /\ kv.result[p].added /\ kv.result[q].added
      /\ kv.result[p].addr = kv.result[q].addr
      /\ kv.result[p].value # kv.result[q].value ) =>
    LET values == ParseValues(kv.field[kv.result[p].addr])
    IN  /\ Contains(values, kv.result[p].value)
        /\ Contains(values, kv.result[q].value)
        /\ \A i, j \in 1..Len(values) : values[i] = values[j] => i = j

====
